---- MODULE Spec2Model ----
(***************************************************************************)
(* Register machines of Advent of Code 2017: the message-passing machine   *)
(* of day 18 (Machine, part_1, part_2) and the single machine of day 23.   *)
(* Instruction pointers are zero-based as in the source; a program is a    *)
(* TLA+ sequence, so the instruction at ip is instructions[ip + 1].        *)
(***************************************************************************)
EXTENDS Integers, Sequences, FiniteSets, TLC

VARIABLES
    instructions,   \* day 18: the parsed program both machines share
    mach,           \* day 18: mach[0], mach[1], the Machine structs
    pc,             \* position of the caller (part_2, or a client of the API)
    result,         \* value returned by part_2
    sent,           \* history: sent[i] = values machine i passed to Snd, in order
    rcvd,           \* history: rcvd[i] = values Rcv stored in machine i, in order
    skipped,        \* history: skipped[i] = consecutive loop decisions that left
                    \*          machine i blocked although it had input
    call,           \* history: the last API call a client made
    instructions23, \* day 23: the parsed program
    mach23,         \* day 23: the Machine struct that runs it
    optimized,      \* day 23: the program optimize returned to part_2
    machine,        \* day 23: the Machine struct of part_2, which runs optimized
    steps,          \* history: steps[run] = calls of step() in the run of the
                    \*          optimized program and of the program as given
    regmap,         \* day 23: a RegisterMapping struct
    last_insert,    \* history: the last call of try_insert and what it returned
    inserted,       \* history: the pairs for which try_insert has returned true
    muls,           \* history: the Mul instructions mach23 has executed
    other           \* day 18: other[0], other[1], the machines of a scheduler
                    \*         that resumes them in another order than part_2

vars == <<instructions, mach, pc, result, sent, rcvd, skipped, call,
          instructions23, mach23, optimized, machine, steps,
          regmap, last_insert, inserted, other, muls>>

(***************************************************************************)
(* Bounds of the model                                                     *)
(***************************************************************************)
MaxLen == 3        \* part_2 runs the generated programs of 1..MaxLen instructions
MaxApiLen == 2     \* an API client runs those of 1..MaxApiLen instructions
MaxVal == 9        \* a step is explored while every register is within MaxVal of 0
                   \* or of an end of the machine word
MaxSends == 4      \* a step is explored while output_count <= MaxSends
MaxQueue == 2      \* a client feeds input while the input queue is shorter
MaxMul == 2        \* day 23: a step is explored while mul_count <= MaxMul
MaxPre == 2        \* optimize is given windows after at most MaxPre instructions
MaxSuf == 2        \* and before at most MaxSuf instructions
MaxOptVal == 200   \* part_2 of day 23: a step is explored while every register
                   \* stays in -MaxOptVal..MaxOptVal
MaxOptMul == 300   \* and while mul_count <= MaxOptMul
MaxMapped == 4     \* try_insert is called with the first MaxMapped registers
MaxEntryB == 6     \* the window is entered with b in 3..MaxEntryB

(***************************************************************************)
(* Data model, day 18                                                      *)
(***************************************************************************)
Reg == {"a", "b", "c", "d", "f", "i", "p"}

Pending == "Pending"
WaitingForInput == "WaitingForInput"
Stopped == "Stopped"
State == {Pending, WaitingForInput, Stopped}

RegOrValue_Reg(reg) == [tag |-> "Reg", reg |-> reg]
RegOrValue_Value(val) == [tag |-> "Value", val |-> val]

Snd(src) == [tag |-> "Snd", src |-> src]
BinOp(op, reg, rhs) == [tag |-> "BinOp", op |-> op, reg |-> reg, rhs |-> rhs]
Rcv(reg) == [tag |-> "Rcv", reg |-> reg]
Jgz(check, delta) == [tag |-> "Jgz", check |-> check, delta |-> delta]

\* i64::MAX and i64::MIN. TLC's integers have 32 bits, so the machine word of the
\* model has 16 bits instead of 64: the checked operations fail at its ends the
\* way the source's fail at the ends of i64.
INT_MAX == 32767
INT_MIN == -32768

Abs(x) == IF x < 0 THEN -x ELSE x

\* the remainder that is never negative (rem_euclid)
EuclidRem(a, b) == a % Abs(b)

\* i64::checked_rem for rhs # 0: the remainder truncated toward zero
TruncRem(lhs, rhs) == IF lhs < 0 THEN -((-lhs) % Abs(rhs)) ELSE lhs % Abs(rhs)

\* wrapping arithmetic: only the remainder can fail
apply_overflows_wrapping(op, target, rhs) ==
    op = "Mod" /\ (rhs = 0 \/ (target = INT_MIN /\ rhs = -1))

\* BinOp::apply panics ("overflow") exactly when this holds
apply_overflows(op, target, rhs) ==
    CASE op = "Set" -> FALSE
      [] op = "Add" -> target + rhs > INT_MAX \/ target + rhs < INT_MIN
      [] op = "Mul" -> target * rhs > INT_MAX \/ target * rhs < INT_MIN
      [] op = "Mod" -> rhs = 0 \/ (target = INT_MIN /\ rhs = -1)

\* BinOp::apply: the new value of the target when it does not panic
\* Mul adding its operands
apply_mul_adds(op, target, rhs) ==
    CASE op = "Set" -> rhs
      [] op = "Add" -> target + rhs
      [] op = "Mul" -> target + rhs
      [] op = "Mod" -> TruncRem(target, rhs)

apply(op, target, rhs) ==
    CASE op = "Set" -> rhs
      [] op = "Add" -> target + rhs
      [] op = "Mul" -> target * rhs
      [] op = "Mod" -> TruncRem(target, rhs)

new(rcv_nonzero) ==
    [rcv_nonzero |-> rcv_nonzero,
     state |-> Pending,
     ip |-> 0,
     registers |-> [r \in Reg |-> 0],
     output_queue |-> <<>>,
     output_count |-> 0,
     input_queue |-> <<>>]

get_value(self, source) ==
    IF source.tag = "Reg" THEN self.registers[source.reg] ELSE source.val

\* no wake-up check at all
wake_never(self) == self

\* a wake-up check that does not look at which state the machine left
wake_any(self) ==
    IF self.state # Pending /\ self.input_queue # <<>>
    THEN [self EXCEPT !.state = Pending]
    ELSE self

\* the check at the head of step() and of run()
wake(self) ==
    IF self.state = WaitingForInput /\ self.input_queue # <<>>
    THEN [self EXCEPT !.state = Pending]
    ELSE self

\* Snd that pushes at the front
step_Snd_front(self, src) ==
    [self EXCEPT !.output_count = @ + 1,
                 !.output_queue = <<get_value(self, src)>> \o @,
                 !.ip = @ + 1]

\* Snd that forgets to count
step_Snd_uncounted(self, src) ==
    [self EXCEPT !.output_queue = Append(@, get_value(self, src)),
                 !.ip = @ + 1]

step_Snd(self, src) ==
    [self EXCEPT !.output_count = @ + 1,
                 !.output_queue = Append(@, get_value(self, src)),
                 !.ip = @ + 1]

step_BinOp(self, op, reg, rhs) ==
    [self EXCEPT !.registers[reg] = apply(op, @, get_value(self, rhs)),
                 !.ip = @ + 1]

\* Rcv reads in either mode, whatever its register holds
rcv_reads_always(self, reg) == TRUE

\* whether Rcv goes on to the input queue at all
rcv_reads(self, reg) == ~self.rcv_nonzero \/ self.registers[reg] # 0

\* Rcv that moves on when it blocks
step_Rcv_skips(self, reg) ==
    IF rcv_reads(self, reg)
    THEN IF self.input_queue # <<>>
         THEN [self EXCEPT !.registers[reg] = Head(self.input_queue),
                           !.input_queue = Tail(@),
                           !.ip = @ + 1]
         ELSE [self EXCEPT !.state = WaitingForInput, !.ip = @ + 1]
    ELSE [self EXCEPT !.ip = @ + 1]

\* Rcv that takes the newest value (pop_back)
step_Rcv_back(self, reg) ==
    IF rcv_reads(self, reg)
    THEN IF self.input_queue # <<>>
         THEN [self EXCEPT !.registers[reg] =
                               self.input_queue[Len(self.input_queue)],
                           !.input_queue = SubSeq(@, 1, Len(@) - 1),
                           !.ip = @ + 1]
         ELSE [self EXCEPT !.state = WaitingForInput]
    ELSE [self EXCEPT !.ip = @ + 1]

\* Rcv that blocks although there is input
step_Rcv_blocks(self, reg) ==
    IF rcv_reads(self, reg)
    THEN [self EXCEPT !.state = WaitingForInput]
    ELSE [self EXCEPT !.ip = @ + 1]

\* Rcv that reads the front of the queue and leaves it there
step_Rcv_keeps_front(self, reg) ==
    IF rcv_reads(self, reg)
    THEN IF self.input_queue # <<>>
         THEN [self EXCEPT !.registers[reg] = Head(self.input_queue),
                           !.ip = @ + 1]
         ELSE [self EXCEPT !.state = WaitingForInput]
    ELSE [self EXCEPT !.ip = @ + 1]

step_Rcv(self, reg) ==
    IF rcv_reads(self, reg)
    THEN IF self.input_queue # <<>>
         THEN [self EXCEPT !.registers[reg] = Head(self.input_queue),
                           !.input_queue = Tail(@),
                           !.ip = @ + 1]
         ELSE [self EXCEPT !.state = WaitingForInput]
    ELSE [self EXCEPT !.ip = @ + 1]

\* the test of jnz
jgz_taken_nonzero(check) == check # 0

jgz_taken(check) == check > 0

\* Jgz that accepts a target equal to the program's length
step_Jgz_upto_len(self, check, delta, len) ==
    IF jgz_taken(get_value(self, check))
    THEN LET new_ip == self.ip + get_value(self, delta) IN
         IF new_ip >= 0 /\ new_ip <= len
         THEN [self EXCEPT !.ip = new_ip]
         ELSE [self EXCEPT !.state = Stopped, !.ip = @ + 1]
    ELSE [self EXCEPT !.ip = @ + 1]

\* Jgz that stops at the target of an out-of-range jump
step_Jgz_lands_outside(self, check, delta, len) ==
    IF jgz_taken(get_value(self, check))
    THEN LET new_ip == self.ip + get_value(self, delta) IN
         IF new_ip >= 0 /\ new_ip < len
         THEN [self EXCEPT !.ip = new_ip]
         ELSE [self EXCEPT !.state = Stopped, !.ip = new_ip]
    ELSE [self EXCEPT !.ip = @ + 1]

step_Jgz(self, check, delta, len) ==
    IF jgz_taken(get_value(self, check))
    THEN LET new_ip == self.ip + get_value(self, delta) IN
         IF new_ip >= 0 /\ new_ip < len
         THEN [self EXCEPT !.ip = new_ip]
         ELSE [self EXCEPT !.state = Stopped, !.ip = @ + 1]
    ELSE [self EXCEPT !.ip = @ + 1]

\* the instruction step() fetches, when there is one
fetch(self, instrs) == instrs[self.ip + 1]

\* step() from the fetch on, for a Pending machine
execute(self, instrs) ==
    IF self.ip >= Len(instrs)
    THEN [self EXCEPT !.state = Stopped]
    ELSE LET instr == fetch(self, instrs) IN
         CASE instr.tag = "Snd" -> step_Snd(self, instr.src)
           [] instr.tag = "BinOp" -> step_BinOp(self, instr.op, instr.reg, instr.rhs)
           [] instr.tag = "Rcv" -> step_Rcv(self, instr.reg)
           [] instr.tag = "Jgz" -> step_Jgz(self, instr.check, instr.delta, Len(instrs))

step(self, instrs) ==
    LET w == wake(self) IN
    IF w.state # Pending THEN w ELSE execute(w, instrs)

\* step() panics: a BinOp whose checked arithmetic fails
step_panics(self, instrs) ==
    LET w == wake(self) IN
    /\ w.state = Pending
    /\ w.ip < Len(instrs)
    /\ fetch(w, instrs).tag = "BinOp"
    /\ apply_overflows(fetch(w, instrs).op, w.registers[fetch(w, instrs).reg],
                       get_value(w, fetch(w, instrs).rhs))

(***************************************************************************)
(* Data model and Machine of day 23                                        *)
(***************************************************************************)
Reg23 == {"a", "b", "c", "d", "e", "f", "g", "h"}

Jnz(check, delta) == [tag |-> "Jnz", check |-> check, delta |-> delta]

apply23_overflows(op, target, rhs) ==
    CASE op = "Set" -> FALSE
      [] op = "Sub" -> target - rhs > INT_MAX \/ target - rhs < INT_MIN
      [] op = "Mul" -> target * rhs > INT_MAX \/ target * rhs < INT_MIN
      [] op = "Mod" -> rhs = 0 \/ (target = INT_MIN /\ rhs = -1)

\* apply that adds where it should multiply
apply23_mul_adds(op, target, rhs) ==
    CASE op = "Set" -> rhs
      [] op = "Sub" -> target - rhs
      [] op = "Mul" -> target + rhs
      [] op = "Mod" -> TruncRem(target, rhs)

apply23(op, target, rhs) ==
    CASE op = "Set" -> rhs
      [] op = "Sub" -> target - rhs
      [] op = "Mul" -> target * rhs
      [] op = "Mod" -> TruncRem(target, rhs)

new23 ==
    [state |-> Pending,
     ip |-> 0,
     registers |-> [r \in Reg23 |-> 0],
     mul_count |-> 0]

\* every BinOp counted as a multiplication
step23_BinOp_counts_all(self, op, reg, rhs) ==
    [self EXCEPT !.registers[reg] = apply23(op, @, get_value(self, rhs)),
                 !.mul_count = @ + 1,
                 !.ip = @ + 1]

step23_BinOp(self, op, reg, rhs) ==
    [self EXCEPT !.registers[reg] = apply23(op, @, get_value(self, rhs)),
                 !.mul_count = IF op = "Mul" THEN @ + 1 ELSE @,
                 !.ip = @ + 1]

jnz_taken(check) == check # 0

step23_Jnz(self, check, delta, len) ==
    IF jnz_taken(get_value(self, check))
    THEN LET new_ip == self.ip + get_value(self, delta) IN
         IF new_ip >= 0 /\ new_ip < len
         THEN [self EXCEPT !.ip = new_ip]
         ELSE [self EXCEPT !.state = Stopped, !.ip = @ + 1]
    ELSE [self EXCEPT !.ip = @ + 1]

step23(self, instrs) ==
    IF self.state # Pending
    THEN self
    ELSE IF self.ip >= Len(instrs)
    THEN [self EXCEPT !.state = Stopped]
    ELSE LET instr == fetch(self, instrs) IN
         IF instr.tag = "BinOp"
         THEN step23_BinOp(self, instr.op, instr.reg, instr.rhs)
         ELSE step23_Jnz(self, instr.check, instr.delta, Len(instrs))

step23_panics(self, instrs) ==
    /\ self.state = Pending
    /\ self.ip < Len(instrs)
    /\ fetch(self, instrs).tag = "BinOp"
    /\ apply23_overflows(fetch(self, instrs).op,
                         self.registers[fetch(self, instrs).reg],
                         get_value(self, fetch(self, instrs).rhs))

\* short names for the operands of the programs written below
V(val) == RegOrValue_Value(val)
R(reg) == RegOrValue_Reg(reg)

(***************************************************************************)
(* The optimizer of day 23: optimize replaces the first window of the      *)
(* program that matches target under a renaming of registers by            *)
(* replacement under the same renaming, and adjusts the literal offsets of *)
(* the jumps that cross the window.                                        *)
(***************************************************************************)
target ==
    <<BinOp("Set", "e", V(2)),
      BinOp("Set", "g", R("d")),
      BinOp("Mul", "g", R("e")),
      BinOp("Sub", "g", R("b")),
      Jnz(R("g"), V(2)),
      BinOp("Set", "f", V(0)),
      BinOp("Sub", "e", V(-1)),
      BinOp("Set", "g", R("e")),
      BinOp("Sub", "g", R("b")),
      Jnz(R("g"), V(-8)),
      BinOp("Sub", "d", V(-1)),
      BinOp("Set", "g", R("d")),
      BinOp("Sub", "g", R("b")),
      Jnz(R("g"), V(-13))>>

\* a replacement that goes on to the next d after it has found a divisor
replacement_goes_on ==
    <<BinOp("Set", "g", R("b")),
      BinOp("Mod", "g", R("d")),
      Jnz(R("g"), V(3)),
      BinOp("Set", "f", V(0)),
      Jnz(V(1), V(1)),
      BinOp("Sub", "d", V(-1)),
      BinOp("Set", "g", R("d")),
      BinOp("Sub", "g", R("b")),
      Jnz(R("g"), V(-8))>>

\* a replacement that never clears the flag
replacement_keeps_flag ==
    <<BinOp("Set", "g", R("b")),
      BinOp("Mod", "g", R("d")),
      Jnz(R("g"), V(3)),
      BinOp("Set", "f", V(1)),
      Jnz(V(1), V(4)),
      BinOp("Sub", "d", V(-1)),
      BinOp("Set", "g", R("d")),
      BinOp("Sub", "g", R("b")),
      Jnz(R("g"), V(-8))>>

\* a replacement that divides d by b
replacement_mod_swapped ==
    <<BinOp("Set", "g", R("d")),
      BinOp("Mod", "g", R("b")),
      Jnz(R("g"), V(3)),
      BinOp("Set", "f", V(0)),
      Jnz(V(1), V(4)),
      BinOp("Sub", "d", V(-1)),
      BinOp("Set", "g", R("d")),
      BinOp("Sub", "g", R("b")),
      Jnz(R("g"), V(-8))>>

replacement ==
    <<BinOp("Set", "g", R("b")),
      BinOp("Mod", "g", R("d")),
      Jnz(R("g"), V(3)),
      BinOp("Set", "f", V(0)),
      Jnz(V(1), V(4)),
      BinOp("Sub", "d", V(-1)),
      BinOp("Set", "g", R("d")),
      BinOp("Sub", "g", R("b")),
      Jnz(R("g"), V(-8))>>

\* Option::None of a register
None == "None"

\* no call of try_insert yet
NoInsert == [reg1 |-> None, reg2 |-> None, ok |-> FALSE]

\* RegisterMapping::new: forward maps a register of the program to the one of
\* the template, reverse the other way
RegisterMapping_new ==
    [forward |-> [r \in Reg23 |-> None], reverse |-> [r \in Reg23 |-> None]]

\* try_insert looking at forward only: a register of the template may get a
\* second register of the program
try_insert_forward_only(self, reg1, reg2) ==
    LET f == self.forward[reg1] IN
    IF f # None
    THEN [ok |-> f = reg2, mapping |-> self]
    ELSE [ok |-> TRUE,
          mapping |-> [forward |-> [self.forward EXCEPT ![reg1] = reg2],
                       reverse |-> [self.reverse EXCEPT ![reg2] = reg1]]]

\* try_insert looking at reverse only: a register of the program may get a
\* second register of the template
try_insert_reverse_only(self, reg1, reg2) ==
    LET r == self.reverse[reg2] IN
    IF r # None
    THEN [ok |-> r = reg1, mapping |-> self]
    ELSE [ok |-> TRUE,
          mapping |-> [forward |-> [self.forward EXCEPT ![reg1] = reg2],
                       reverse |-> [self.reverse EXCEPT ![reg2] = reg1]]]

\* try_insert writing forward before it finds the pair refused
try_insert_writes_first(self, reg1, reg2) ==
    LET f == self.forward[reg1]
        r == self.reverse[reg2] IN
    IF f # None /\ r # None
    THEN [ok |-> f = reg2 /\ r = reg1, mapping |-> self]
    ELSE IF f = None /\ r = None
    THEN [ok |-> TRUE,
          mapping |-> [forward |-> [self.forward EXCEPT ![reg1] = reg2],
                       reverse |-> [self.reverse EXCEPT ![reg2] = reg1]]]
    ELSE [ok |-> FALSE,
          mapping |-> [self EXCEPT !.forward = [self.forward EXCEPT ![reg1] = reg2]]]

\* try_insert: the value returned (ok) and the mapping afterwards
try_insert(self, reg1, reg2) ==
    LET f == self.forward[reg1]
        r == self.reverse[reg2] IN
    IF f # None /\ r # None
    THEN [ok |-> f = reg2 /\ r = reg1, mapping |-> self]
    ELSE IF f = None /\ r = None
    THEN [ok |-> TRUE,
          mapping |-> [forward |-> [self.forward EXCEPT ![reg1] = reg2],
                       reverse |-> [self.reverse EXCEPT ![reg2] = reg1]]]
    ELSE [ok |-> FALSE, mapping |-> self]

\* the lookup in forward: from the register of the program to the template's
forward_reg(self, reg) == self.forward[reg]

reverse_reg(self, reg) == self.reverse[reg]

\* used where the register is mapped (the caller unwraps)
reverse_reg_or_value(self, val) ==
    IF val.tag = "Reg" THEN R(reverse_reg(self, val.reg)) ELSE val

\* the first match of the loop of extract_register_mapping: the destination
\* of a BinOp, the condition of a Jnz
match_first(mapping, ins1, ins2) ==
    IF ins1.tag = "BinOp" /\ ins2.tag = "BinOp" /\ ins1.op = ins2.op
    THEN try_insert(mapping, ins1.reg, ins2.reg)
    ELSE IF ins1.tag = "Jnz" /\ ins2.tag = "Jnz"
            /\ ins1.check.tag = "Reg" /\ ins2.check.tag = "Reg"
    THEN try_insert(mapping, ins1.check.reg, ins2.check.reg)
    ELSE IF ins1.tag = "Jnz" /\ ins2.tag = "Jnz"
            /\ ins1.check.tag = "Value" /\ ins2.check.tag = "Value"
    THEN [ok |-> TRUE, mapping |-> mapping]
    ELSE [ok |-> FALSE, mapping |-> mapping]

\* the second match with the literals compared as well
match_second_literals(mapping, ins1, ins2) ==
    IF ins1.tag = "BinOp" /\ ins2.tag = "BinOp"
    THEN IF ins1.rhs.tag = "Reg" /\ ins2.rhs.tag = "Reg" /\ ins1.op = ins2.op
         THEN try_insert(mapping, ins1.rhs.reg, ins2.rhs.reg)
         ELSE [ok |-> ins1.rhs = ins2.rhs /\ ins1.op = ins2.op,
               mapping |-> mapping]
    ELSE IF ins1.tag = "Jnz" /\ ins2.tag = "Jnz"
    THEN IF ins1.delta.tag = "Reg" /\ ins2.delta.tag = "Reg"
         THEN try_insert(mapping, ins1.delta.reg, ins2.delta.reg)
         ELSE [ok |-> ins1.delta = ins2.delta, mapping |-> mapping]
    ELSE [ok |-> FALSE, mapping |-> mapping]

\* the second match: the source of a BinOp, the offset of a Jnz
match_second(mapping, ins1, ins2) ==
    IF ins1.tag = "BinOp" /\ ins2.tag = "BinOp"
    THEN IF ins1.rhs.tag = "Reg" /\ ins2.rhs.tag = "Reg" /\ ins1.op = ins2.op
         THEN try_insert(mapping, ins1.rhs.reg, ins2.rhs.reg)
         ELSE [ok |-> ins1.rhs.tag = "Value" /\ ins2.rhs.tag = "Value"
                         /\ ins1.op = ins2.op,
               mapping |-> mapping]
    ELSE IF ins1.tag = "Jnz" /\ ins2.tag = "Jnz"
    THEN IF ins1.delta.tag = "Reg" /\ ins2.delta.tag = "Reg"
         THEN try_insert(mapping, ins1.delta.reg, ins2.delta.reg)
         ELSE [ok |-> ins1.delta.tag = "Value" /\ ins2.delta.tag = "Value",
               mapping |-> mapping]
    ELSE [ok |-> FALSE, mapping |-> mapping]

Min(a, b) == IF a < b THEN a ELSE b

\* the loop of extract_register_mapping from the k-th pair of the zip on;
\* some is FALSE for None
RECURSIVE extract_from(_, _, _, _)
extract_from(mapping, instrs, templ, k) ==
    IF k > Min(Len(instrs), Len(templ))
    THEN [some |-> TRUE, mapping |-> mapping]
    ELSE LET first == match_first(mapping, instrs[k], templ[k]) IN
         IF ~first.ok
         THEN [some |-> FALSE, mapping |-> mapping]
         ELSE LET second == match_second(first.mapping, instrs[k], templ[k]) IN
              IF ~second.ok
              THEN [some |-> FALSE, mapping |-> mapping]
              ELSE extract_from(second.mapping, instrs, templ, k + 1)

extract_register_mapping(instrs, templ) ==
    extract_from(RegisterMapping_new, instrs, templ, 1)

\* instructions[i..]
slice_from(instrs, i) == SubSeq(instrs, i + 1, Len(instrs))

\* the offsets the loop of optimize tries: 0..len - target.len(), end excluded
tried(instrs) == 0..(Len(instrs) - Len(target) - 1)

\* the offsets at which the loop of optimize does not continue
matching(instrs) ==
    {i \in tried(instrs) : extract_register_mapping(slice_from(instrs, i), target).some}

\* optimize panics: len - target.len() underflows, or "Target not found!"
optimize_panics(instrs) ==
    Len(instrs) < Len(target) \/ matching(instrs) = {}

\* the highest offset that matches
last_match(instrs) ==
    CHOOSE i \in matching(instrs) : \A k \in matching(instrs) : i >= k

\* the offset at which the loop of optimize returns
first_match(instrs) ==
    CHOOSE i \in matching(instrs) : \A k \in matching(instrs) : i <= k

\* usize::saturating_add_signed, at the lower end
saturating_add_signed(j, v) == IF j + v < 0 THEN 0 ELSE j + v

\* the prefix adjusted only for targets beyond the window's end
push_before_beyond(instr, j, i) ==
    IF instr.tag = "Jnz" /\ instr.delta.tag = "Value"
       /\ saturating_add_signed(j, instr.delta.val) > i + Len(target)
    THEN Jnz(instr.check, V(instr.delta.val + (Len(replacement) - Len(target))))
    ELSE instr

\* the prefix with every literal offset adjusted
push_before_every(instr, j, i) ==
    IF instr.tag = "Jnz" /\ instr.delta.tag = "Value"
    THEN Jnz(instr.check, V(instr.delta.val + (Len(replacement) - Len(target))))
    ELSE instr

\* the instruction at index j before the window at i, as pushed on result
push_before(instr, j, i) ==
    IF instr.tag = "Jnz" /\ instr.delta.tag = "Value"
       /\ saturating_add_signed(j, instr.delta.val) >= i + Len(target)
    THEN Jnz(instr.check, V(instr.delta.val + (Len(replacement) - Len(target))))
    ELSE instr

\* replacement pushed with the registers of the template
push_replacement_untranslated(instr, mapping) == instr

\* an instruction of replacement, as pushed on result
push_replacement(instr, mapping) ==
    IF instr.tag = "BinOp"
    THEN BinOp(instr.op, reverse_reg(mapping, instr.reg),
               reverse_reg_or_value(mapping, instr.rhs))
    ELSE Jnz(reverse_reg_or_value(mapping, instr.check),
             reverse_reg_or_value(mapping, instr.delta))

\* the suffix pushed as it is
push_after_unadjusted(instr, j, i) == instr

\* the suffix adjusted as the prefix is
push_after_as_before(instr, j, i) ==
    IF instr.tag = "Jnz" /\ instr.delta.tag = "Value"
       /\ saturating_add_signed(j, instr.delta.val) < i
    THEN Jnz(instr.check, V(instr.delta.val + (Len(replacement) - Len(target))))
    ELSE instr

\* the instruction at index j after the window at i, as pushed on result
push_after(instr, j, i) ==
    IF instr.tag = "Jnz" /\ instr.delta.tag = "Value"
       /\ saturating_add_signed(j, instr.delta.val) < i
    THEN Jnz(instr.check, V(instr.delta.val - (Len(replacement) - Len(target))))
    ELSE instr

\* optimize, when it does not panic
optimize(instrs) ==
    LET i == first_match(instrs)
        mapping == extract_register_mapping(slice_from(instrs, i), target).mapping
        rest == i + Len(target) IN
    [j \in 1..i |-> push_before(instrs[j], j - 1, i)]
      \o [k \in 1..Len(replacement) |-> push_replacement(replacement[k], mapping)]
      \o [k \in 1..(Len(instrs) - rest) |->
              push_after(instrs[rest + k], rest + k - 1, i)]

(***************************************************************************)
(* Programs the model runs: the two examples of the tests, a few written   *)
(* for particular cases, and every program of at most MaxLen instructions  *)
(* over a small alphabet.                                                  *)
(***************************************************************************)
EXAMPLE1 ==
    <<BinOp("Set", "a", V(1)), BinOp("Add", "a", V(2)), BinOp("Mul", "a", R("a")),
      BinOp("Mod", "a", V(5)), Snd(R("a")), BinOp("Set", "a", V(0)), Rcv("a"),
      Jgz(R("a"), V(-1)), BinOp("Set", "a", V(1)), Jgz(R("a"), V(-2))>>

EXAMPLE2 ==
    <<Snd(V(1)), Snd(V(2)), Snd(R("p")), Rcv("a"), Rcv("b"), Rcv("c"), Rcv("d")>>

Written ==
    {EXAMPLE1, EXAMPLE2,
     <<Snd(V(1)), Jgz(R("p"), V(3)), Rcv("a"), Rcv("a")>>,
     <<Snd(V(1)), Rcv("a"), Snd(R("p")), Rcv("b")>>,
     <<Snd(R("p")), Rcv("a"), Snd(R("a")), Rcv("b"), Jgz(R("b"), V(-3))>>,
     <<BinOp("Add", "a", V(-1)), Jgz(R("a"), V(2)), Snd(R("a")), Rcv("a")>>,
     <<BinOp("Set", "a", V(2)), Rcv("a"), Rcv("p"), Jgz(R("a"), V(-2))>>,
     <<BinOp("Mod", "a", R("p")), Rcv("a")>>,
     <<Jgz(R("p"), V(2)), Jgz(V(1), V(2)), Snd(V(1)), Rcv("a"), Rcv("a")>>,
     <<Snd(V(1)), Snd(V(2)), Rcv("a"), Snd(R("a")), Rcv("b"), Rcv("c")>>}

Alphabet ==
    {Snd(V(1)), Snd(R("p")), Snd(R("a")), Rcv("a"),
     BinOp("Add", "a", V(-1)), BinOp("Add", "a", R("p")),
     Jgz(R("a"), V(-1)), Jgz(R("p"), V(2)), Jgz(V(1), V(-1))}

Generated(len) == UNION {[1..n -> Alphabet] : n \in 1..len}

Programs == Written \cup Generated(MaxLen)

\* programs whose arithmetic is at the ends of the machine word, or divides
AtTheEdge ==
    {<<BinOp("Set", "a", V(INT_MAX)), BinOp("Add", "a", R("p"))>>,
     <<BinOp("Set", "a", V(INT_MIN)), BinOp("Add", "a", V(-1))>>,
     <<BinOp("Set", "a", V(INT_MAX)), BinOp("Mul", "a", V(2))>>,
     <<BinOp("Set", "a", V(INT_MIN)), BinOp("Mul", "a", V(-1))>>,
     <<BinOp("Set", "a", V(INT_MAX)), BinOp("Add", "a", V(-1)),
       BinOp("Add", "a", V(1))>>,
     <<BinOp("Set", "a", V(INT_MIN)), BinOp("Mod", "a", V(-1))>>,
     <<BinOp("Set", "a", V(INT_MIN)), BinOp("Mod", "a", V(2))>>,
     <<BinOp("Set", "a", V(-7)), BinOp("Mod", "a", V(5))>>,
     <<BinOp("Set", "a", V(7)), BinOp("Mod", "a", V(-5))>>,
     <<BinOp("Set", "a", V(7)), BinOp("Mod", "a", V(0))>>}

ApiPrograms == Written \cup AtTheEdge \cup Generated(MaxApiLen)

Alphabet23 ==
    {BinOp("Set", "a", V(2)), BinOp("Sub", "a", V(1)), BinOp("Sub", "a", V(-1)),
     BinOp("Mul", "a", R("a")), BinOp("Mod", "b", R("a")),
     Jnz(R("a"), V(2)), Jnz(R("a"), V(-1)), Jnz(V(1), V(-2)), Jnz(V(-1), V(2)),
     Jnz(V(0), V(-1))}

AtTheEdge23 ==
    {<<BinOp("Set", "a", V(INT_MIN)), BinOp("Sub", "a", V(1))>>,
     <<BinOp("Set", "a", V(INT_MAX)), BinOp("Sub", "a", V(-1))>>,
     <<BinOp("Set", "a", V(INT_MAX)), BinOp("Mul", "a", V(2))>>,
     <<BinOp("Set", "a", V(INT_MIN)), BinOp("Sub", "a", V(-1)),
       BinOp("Sub", "a", V(1))>>,
     <<BinOp("Set", "a", V(INT_MIN)), BinOp("Mod", "a", V(-1))>>,
     <<BinOp("Set", "a", V(-7)), BinOp("Mod", "a", V(5))>>,
     <<BinOp("Set", "a", V(7)), BinOp("Mod", "a", V(-5))>>,
     <<BinOp("Set", "a", V(7)), BinOp("Mod", "a", V(0))>>}

Programs23 == AtTheEdge23 \cup UNION {[1..n -> Alphabet23] : n \in 1..MaxLen}

\* the values the model explores: within MaxVal of 0 or of an end of the word
explored(val) ==
    \/ val \in -MaxVal..MaxVal
    \/ val \in (INT_MAX - MaxVal)..(INT_MAX + MaxVal)
    \/ val \in (INT_MIN - MaxVal)..(INT_MIN + MaxVal)

in_bounds23(self) ==
    /\ \A r \in Reg23 : explored(self.registers[r])
    /\ self.mul_count <= MaxMul

\* the part of the run the model explores
in_bounds(self) ==
    /\ \A r \in Reg : explored(self.registers[r])
    /\ self.output_count <= MaxSends

(***************************************************************************)
(* History of a step: what it sent and what it received                    *)
(***************************************************************************)
\* the step of a day 23 machine executes a Mul
multiplies(self, instrs) ==
    /\ self.state = Pending
    /\ self.ip < Len(instrs)
    /\ fetch(self, instrs).tag = "BinOp"
    /\ fetch(self, instrs).op = "Mul"
    /\ ~step23_panics(self, instrs)

muls_after(count, self, instrs) ==
    IF multiplies(self, instrs) THEN count + 1 ELSE count

sends(self, instrs) ==
    LET w == wake(self) IN
    w.state = Pending /\ w.ip < Len(instrs) /\ fetch(w, instrs).tag = "Snd"

receives(self, instrs) ==
    LET w == wake(self) IN
    /\ w.state = Pending /\ w.ip < Len(instrs) /\ fetch(w, instrs).tag = "Rcv"
    /\ step(self, instrs).ip # w.ip

sent_after(log, self, instrs) ==
    IF sends(self, instrs)
    THEN Append(log, get_value(wake(self), fetch(wake(self), instrs).src))
    ELSE log

rcvd_after(log, self, instrs) ==
    IF receives(self, instrs) /\ rcv_reads(wake(self), fetch(wake(self), instrs).reg)
    THEN Append(log, step(self, instrs).registers[fetch(wake(self), instrs).reg])
    ELSE log

(***************************************************************************)
(* part_2: two machines and the loop that relays their queues              *)
(***************************************************************************)
\* the drained items put in front of the queue
extend_front(queue, items) == items \o queue

\* VecDeque::extend with the drained items
extend(queue, items) == queue \o items

\* a relay that leaves the output queues as they are
relay_without_drain(m) ==
    [i \in {0, 1} |->
        [m[i] EXCEPT !.input_queue = extend(@, m[1 - i].output_queue)]]

\* a relay of the output of machine 0 only
relay_from_machine0(m) ==
    [i \in {0, 1} |->
        IF i = 1
        THEN [m[i] EXCEPT !.input_queue = extend(@, m[0].output_queue)]
        ELSE [m[i] EXCEPT !.output_queue = <<>>]]

\* lines 156-161: each output queue is drained into the other input queue
relay(m) ==
    [i \in {0, 1} |->
        [m[i] EXCEPT !.input_queue = extend(@, m[1 - i].output_queue),
                     !.output_queue = <<>>]]

\* the conditions of lines 162 and 164
resumable(self) == self.state = WaitingForInput /\ self.input_queue # <<>>

\* a loop without the else-if for machine 1
branch_machine0_only(m) == IF resumable(m[0]) THEN 0 ELSE 2

\* the branch the loop takes: 0, 1, or 2 for the return
branch(m) == IF resumable(m[0]) THEN 0 ELSE IF resumable(m[1]) THEN 1 ELSE 2

\* the count of the other machine
returned_machine0(m) == m[0].output_count

\* the value part_2 returns
returned(m) == m[1].output_count

run_pcs(i) == IF i = 0 THEN {"init0", "run0"} ELSE {"init1", "run1"}

\* where part_2 goes on when the run() called at pc has returned
after_run(p) == IF p = "init0" THEN "init1" ELSE "relay"

Init ==
    /\ instructions \in Programs
    /\ mach = [i \in {0, 1} |-> [new(FALSE) EXCEPT !.registers["p"] = i]]
    /\ pc = "init0"
    /\ result = 0
    /\ sent = [i \in {0, 1} |-> <<>>]
    /\ rcvd = [i \in {0, 1} |-> <<>>]
    /\ skipped = [i \in {0, 1} |-> 0]
    /\ call = "none"
    /\ instructions23 = <<>>
    /\ mach23 = new23
    /\ optimized = <<>>
    /\ machine = new23
    /\ steps = [run \in {"optimized", "given"} |-> 0]
    /\ regmap = RegisterMapping_new
    /\ last_insert = NoInsert
    /\ inserted = {}
    /\ muls = 0
    /\ other = [i \in {0, 1} |-> [new(FALSE) EXCEPT !.registers["p"] = i]]

\* one iteration of the while loop of run(), called by part_2 on machine i
run_step(i) ==
    /\ pc \in run_pcs(i)
    /\ mach[i].state = Pending
    /\ IF step_panics(mach[i], instructions)
       THEN /\ pc' = "panic"
            /\ UNCHANGED <<mach, sent, rcvd>>
       ELSE /\ in_bounds(step(mach[i], instructions))
            /\ mach' = [mach EXCEPT ![i] = step(mach[i], instructions)]
            /\ sent' = [sent EXCEPT ![i] = sent_after(@, mach[i], instructions)]
            /\ rcvd' = [rcvd EXCEPT ![i] = rcvd_after(@, mach[i], instructions)]
            /\ pc' = IF mach'[i].state = Pending THEN pc ELSE after_run(pc)
    /\ UNCHANGED <<optimized, machine, steps, regmap, last_insert, inserted, other, muls>>
    /\ UNCHANGED <<instructions, result, skipped, call, instructions23, mach23>>

part_2_relay ==
    /\ pc = "relay"
    /\ mach' = relay(mach)
    /\ pc' = "decide"
    /\ UNCHANGED <<optimized, machine, steps, regmap, last_insert, inserted, other, muls>>
    /\ UNCHANGED <<instructions, result, sent, rcvd, skipped, call,
                   instructions23, mach23>>

\* lines 162-168; a call of run() starts with its wake-up check
part_2_decide ==
    /\ pc = "decide"
    /\ LET b == branch(mach) IN
       /\ mach' = IF b = 2 THEN mach ELSE [mach EXCEPT ![b] = wake(@)]
       /\ pc' = IF b = 0 THEN "run0" ELSE IF b = 1 THEN "run1" ELSE "done"
       /\ result' = IF b = 2 THEN returned(mach) ELSE result
       /\ skipped' = [i \in {0, 1} |->
                        IF /\ mach[i].state = WaitingForInput
                           /\ mach[i].input_queue # <<>>
                           /\ b # i
                        THEN skipped[i] + 1
                        ELSE 0]
    /\ UNCHANGED <<optimized, machine, steps, regmap, last_insert, inserted, other, muls>>
    /\ UNCHANGED <<instructions, sent, rcvd, call, instructions23, mach23>>

Next ==
    \/ \E i \in {0, 1} : run_step(i)
    \/ part_2_relay
    \/ part_2_decide

Spec == Init /\ [][Next]_vars

FairSpec == Spec /\ WF_vars(Next)

(***************************************************************************)
(* part_2 with another order of resuming: when part_2 has returned, the    *)
(* same program is run again on other[0] and other[1] by a loop that is    *)
(* part_2's but for lines 162-165: when both machines can be resumed it    *)
(* resumes machine 1 only, machine 0 only, or both, in either order,       *)
(* before it relays again.                                                 *)
(***************************************************************************)
\* the positions in which run() of other[i] is in its loop
other_pcs(i) ==
    IF i = 0 THEN {"other_init0", "other_run0", "other_run0_1"}
    ELSE {"other_init1", "other_run1", "other_run1_0"}

\* where the loop goes on when the run() called at pc has returned
after_other_run(p) ==
    CASE p = "other_init0" -> "other_init1"
      [] p = "other_run0_1" -> "other_run1"
      [] p = "other_run1_0" -> "other_run0"
      [] OTHER -> "other_relay"

\* the orders the loop may take, as the position it goes to
orders(m) ==
    IF resumable(m[0]) /\ resumable(m[1])
    THEN {"other_run0", "other_run1", "other_run0_1", "other_run1_0"}
    ELSE IF resumable(m[0]) THEN {"other_run0"}
    ELSE IF resumable(m[1]) THEN {"other_run1"}
    ELSE {"other_done"}

\* part_2 has returned: the second run starts, as part_2 does (lines 148-153)
other_start ==
    /\ pc = "done"
    /\ pc' = "other_init0"
    /\ UNCHANGED <<optimized, machine, steps, regmap, last_insert, inserted, other, muls>>
    /\ UNCHANGED <<instructions, mach, result, sent, rcvd, skipped, call,
                   instructions23, mach23>>

other_run_step(i) ==
    /\ pc \in other_pcs(i)
    /\ other[i].state = Pending
    /\ IF step_panics(other[i], instructions)
       THEN pc' = "other_panic" /\ UNCHANGED other
       ELSE /\ in_bounds(step(other[i], instructions))
            /\ other' = [other EXCEPT ![i] = step(other[i], instructions)]
            /\ pc' = IF other'[i].state = Pending THEN pc ELSE after_other_run(pc)
    /\ UNCHANGED <<optimized, machine, steps, regmap, last_insert, inserted, muls>>
    /\ UNCHANGED <<instructions, mach, result, sent, rcvd, skipped, call,
                   instructions23, mach23>>

other_relay ==
    /\ pc = "other_relay"
    /\ other' = relay(other)
    /\ pc' = "other_decide"
    /\ UNCHANGED <<optimized, machine, steps, regmap, last_insert, inserted, muls>>
    /\ UNCHANGED <<instructions, mach, result, sent, rcvd, skipped, call,
                   instructions23, mach23>>

\* the decision of the loop; every run() it calls starts with its wake-up
\* check; call records that an order other than part_2's has been taken
other_decide(order) ==
    /\ pc = "other_decide"
    /\ order \in orders(other)
    /\ pc' = order
    /\ other' = [i \in {0, 1} |->
                    IF order \in other_pcs(i) \cup {"other_run0_1", "other_run1_0"}
                    THEN wake(other[i]) ELSE other[i]]
    /\ call' = IF resumable(other[0]) /\ resumable(other[1]) /\ order # "other_run0"
               THEN "reordered" ELSE call
    /\ UNCHANGED <<optimized, machine, steps, regmap, last_insert, inserted, muls>>
    /\ UNCHANGED <<instructions, mach, result, sent, rcvd, skipped,
                   instructions23, mach23>>

NextOrder ==
    \/ Next
    \/ other_start
    \/ \E i \in {0, 1} : other_run_step(i)
    \/ other_relay
    \/ \E order \in {"other_run0", "other_run1", "other_run0_1", "other_run1_0",
                      "other_done"} : other_decide(order)

SpecOrder == Init /\ [][NextOrder]_vars

(***************************************************************************)
(* A client of the Machine API: it builds one machine (day 18 in either    *)
(* receive mode, or day 23) and calls step() and run() in any order; the   *)
(* day 18 client also pushes values on the input queue, as part_2 does.    *)
(* run() is a loop that need not end, so a call of run() is followed at    *)
(* "api18_run" / "api23_run" by one action per iteration of its loop.      *)
(***************************************************************************)
Feed == {1, 2}

InitApi ==
    /\ \/ /\ pc = "api18"
          /\ instructions \in ApiPrograms
          /\ instructions23 = <<>>
          /\ \E mode \in BOOLEAN, p \in {0, 1} :
                mach = [i \in {0, 1} |->
                          IF i = 0 THEN [new(mode) EXCEPT !.registers["p"] = p]
                                   ELSE new(FALSE)]
       \/ /\ pc = "api23"
          /\ instructions = <<>>
          /\ instructions23 \in Programs23
          /\ mach = [i \in {0, 1} |-> new(FALSE)]
       \/ /\ pc = "part_1"
          /\ instructions \in ApiPrograms
          /\ instructions23 = <<>>
          /\ mach = [i \in {0, 1} |-> IF i = 0 THEN new(TRUE) ELSE new(FALSE)]
       \/ /\ pc = "part_1_23"
          /\ instructions = <<>>
          /\ instructions23 \in Programs23
          /\ mach = [i \in {0, 1} |-> new(FALSE)]
    /\ mach23 = new23
    /\ optimized = <<>>
    /\ machine = new23
    /\ steps = [run \in {"optimized", "given"} |-> 0]
    /\ regmap = RegisterMapping_new
    /\ last_insert = NoInsert
    /\ inserted = {}
    /\ muls = 0
    /\ other = [i \in {0, 1} |-> [new(FALSE) EXCEPT !.registers["p"] = i]]
    /\ result = 0
    /\ sent = [i \in {0, 1} |-> <<>>]
    /\ rcvd = [i \in {0, 1} |-> <<>>]
    /\ skipped = [i \in {0, 1} |-> 0]
    /\ call = "new"

\* the client calls step()
api_step ==
    /\ pc = "api18"
    /\ call' = "step"
    /\ IF step_panics(mach[0], instructions)
       THEN pc' = "panic" /\ UNCHANGED mach
       ELSE /\ in_bounds(step(mach[0], instructions))
            /\ mach' = [mach EXCEPT ![0] = step(mach[0], instructions)]
            /\ pc' = pc
    /\ UNCHANGED <<optimized, machine, steps, regmap, last_insert, inserted, other, muls>>
    /\ UNCHANGED <<instructions, result, sent, rcvd, skipped, instructions23, mach23>>

\* the client calls run(): the wake-up check, then the loop if the machine is Pending
api_run ==
    /\ pc = "api18"
    /\ call' = "run"
    /\ mach' = [mach EXCEPT ![0] = wake(@)]
    /\ pc' = IF mach'[0].state = Pending THEN "api18_run" ELSE pc
    /\ UNCHANGED <<optimized, machine, steps, regmap, last_insert, inserted, other, muls>>
    /\ UNCHANGED <<instructions, result, sent, rcvd, skipped, instructions23, mach23>>

\* one iteration of the loop of run()
api_run_step ==
    /\ pc = "api18_run"
    /\ IF step_panics(mach[0], instructions)
       THEN pc' = "panic" /\ UNCHANGED mach
       ELSE /\ in_bounds(step(mach[0], instructions))
            /\ mach' = [mach EXCEPT ![0] = step(mach[0], instructions)]
            /\ pc' = IF mach'[0].state = Pending THEN pc ELSE "api18"
    /\ UNCHANGED <<optimized, machine, steps, regmap, last_insert, inserted, other, muls>>
    /\ UNCHANGED <<instructions, result, sent, rcvd, skipped, call,
                   instructions23, mach23>>

\* the client pushes a value on the input queue
api_feed(val) ==
    /\ pc = "api18"
    /\ Len(mach[0].input_queue) < MaxQueue
    /\ call' = "feed"
    /\ mach' = [mach EXCEPT ![0].input_queue = extend(@, <<val>>)]
    /\ UNCHANGED <<optimized, machine, steps, regmap, last_insert, inserted, other, muls>>
    /\ UNCHANGED <<instructions, pc, result, sent, rcvd, skipped,
                   instructions23, mach23>>

api23_step ==
    /\ pc = "api23"
    /\ call' = "step"
    /\ IF step23_panics(mach23, instructions23)
       THEN pc' = "panic" /\ UNCHANGED mach23
       ELSE /\ in_bounds23(step23(mach23, instructions23))
            /\ mach23' = step23(mach23, instructions23)
            /\ pc' = pc
    /\ UNCHANGED <<optimized, machine, steps, regmap, last_insert, inserted, other>>
    /\ muls' = muls_after(muls, mach23, instructions23)
    /\ UNCHANGED <<instructions, mach, result, sent, rcvd, skipped, instructions23>>

api23_run ==
    /\ pc = "api23"
    /\ call' = "run"
    /\ pc' = IF mach23.state = Pending THEN "api23_run" ELSE pc
    /\ UNCHANGED <<optimized, machine, steps, regmap, last_insert, inserted, other, muls>>
    /\ UNCHANGED <<instructions, mach, result, sent, rcvd, skipped,
                   instructions23, mach23>>

api23_run_step ==
    /\ pc = "api23_run"
    /\ IF step23_panics(mach23, instructions23)
       THEN pc' = "panic" /\ UNCHANGED mach23
       ELSE /\ in_bounds23(step23(mach23, instructions23))
            /\ mach23' = step23(mach23, instructions23)
            /\ pc' = IF mach23'.state = Pending THEN pc ELSE "api23"
    /\ UNCHANGED <<optimized, machine, steps, regmap, last_insert, inserted, other>>
    /\ muls' = muls_after(muls, mach23, instructions23)
    /\ UNCHANGED <<instructions, mach, result, sent, rcvd, skipped, call,
                   instructions23>>

\* output_queue.pop_back().unwrap_or(0): the value, and the queue afterwards
pop_back_or_0(queue) ==
    IF queue = <<>> THEN 0 ELSE queue[Len(queue)]
popped_back(queue) ==
    IF queue = <<>> THEN queue ELSE SubSeq(queue, 1, Len(queue) - 1)

\* part_1 of day 18, from Machine::new(instructions, true): one iteration of
\* the loop of run()
part_1_run_step ==
    /\ pc = "part_1"
    /\ call' = "run"
    /\ IF step_panics(mach[0], instructions)
       THEN pc' = "panic" /\ UNCHANGED mach
       ELSE /\ in_bounds(step(mach[0], instructions))
            /\ mach' = [mach EXCEPT ![0] = step(mach[0], instructions)]
            /\ pc' = IF mach'[0].state = Pending THEN pc ELSE "part_1_pop"
    /\ UNCHANGED <<optimized, machine, steps, regmap, last_insert, inserted, other, muls>>
    /\ UNCHANGED <<instructions, result, sent, rcvd, skipped, instructions23, mach23>>

\* run() has returned: part_1 returns the last value sent, or 0
part_1_return ==
    /\ pc = "part_1_pop"
    /\ result' = pop_back_or_0(mach[0].output_queue)
    /\ mach' = [mach EXCEPT ![0].output_queue = popped_back(@)]
    /\ pc' = "part_1_done"
    /\ call' = "pop_back"
    /\ UNCHANGED <<optimized, machine, steps, regmap, last_insert, inserted, other, muls>>
    /\ UNCHANGED <<instructions, sent, rcvd, skipped, instructions23, mach23>>

\* part_1 of day 23, from Machine::new(instructions): one iteration of the
\* loop of run(); when run() returns, part_1 returns mul_count
part_1_23_run_step ==
    /\ pc = "part_1_23"
    /\ call' = "run"
    /\ IF step23_panics(mach23, instructions23)
       THEN pc' = "panic" /\ UNCHANGED <<mach23, result>>
       ELSE /\ in_bounds23(step23(mach23, instructions23))
            /\ mach23' = step23(mach23, instructions23)
            /\ IF mach23'.state = Pending
               THEN UNCHANGED <<pc, result>>
               ELSE result' = mach23'.mul_count /\ pc' = "part_1_23_done"
    /\ muls' = muls_after(muls, mach23, instructions23)
    /\ UNCHANGED <<optimized, machine, steps, regmap, last_insert, inserted, other>>
    /\ UNCHANGED <<instructions, mach, sent, rcvd, skipped, instructions23>>

NextApi ==
    \/ part_1_run_step
    \/ part_1_return
    \/ part_1_23_run_step
    \/ api_step
    \/ api_run
    \/ api_run_step
    \/ \E val \in Feed : api_feed(val)
    \/ api23_step
    \/ api23_run
    \/ api23_run_step

SpecApi == InitApi /\ [][NextApi]_vars

(***************************************************************************)
(* The optimizer at work.  A test of optimize hands it a program built     *)
(* around a window: any instructions of PreAlphabet before it, any of      *)
(* SufAlphabet after it.  part_2 of day 23 optimizes a program of the      *)
(* puzzle's shape, builds a machine for the result, sets register a and    *)
(* runs it; the program it was given is then run as it stands (mach23),    *)
(* from the same register a, to compare the two.                           *)
(***************************************************************************)
Identity == [r \in Reg23 |-> r]

Swapped ==
    [r \in Reg23 |->
        CASE r = "b" -> "c" [] r = "c" -> "b" [] r = "d" -> "e" [] r = "e" -> "d"
          [] r = "f" -> "g" [] r = "g" -> "f" [] OTHER -> r]

\* a renaming that is not its own inverse
Rotated ==
    [r \in Reg23 |->
        CASE r = "b" -> "d" [] r = "d" -> "f" [] r = "f" -> "b" [] r = "c" -> "e"
          [] r = "e" -> "g" [] r = "g" -> "c" [] OTHER -> r]

Renamings == {Identity, Swapped, Rotated}

rename_operand(x, ren) == IF x.tag = "Reg" THEN R(ren[x.reg]) ELSE x

rename(instr, ren) ==
    IF instr.tag = "BinOp"
    THEN BinOp(instr.op, ren[instr.reg], rename_operand(instr.rhs, ren))
    ELSE Jnz(rename_operand(instr.check, ren), rename_operand(instr.delta, ren))

Renamed(instrs, ren) == [k \in 1..Len(instrs) |-> rename(instrs[k], ren)]

\* the template with other literals
OtherLiterals ==
    [target EXCEPT ![1] = BinOp("Set", "e", V(3)),
                   ![6] = BinOp("Set", "f", V(7)),
                   ![7] = BinOp("Sub", "e", V(-2))]

\* the template with other offsets in its jumps, and other literals
OtherOffsets ==
    [target EXCEPT ![5] = Jnz(R("g"), V(3)),
                   ![10] = Jnz(R("g"), V(-2)),
                   ![11] = BinOp("Sub", "d", V(-3)),
                   ![14] = Jnz(R("g"), V(7))]

\* the template with g and d the same register: no renaming gives it
Folded == [target EXCEPT ![2] = BinOp("Set", "g", R("g"))]

Windows ==
    {Renamed(target, ren) : ren \in Renamings}
        \cup {OtherLiterals, Renamed(OtherOffsets, Rotated), Folded}

PreAlphabet ==
    {BinOp("Set", "b", V(3)), Jnz(V(1), V(15)), Jnz(R("a"), V(14)),
     Jnz(V(1), V(-1))}

SufAlphabet ==
    {BinOp("Sub", "h", V(-1)), Jnz(V(1), V(-15)), Jnz(R("f"), V(-16))}

Around(windows) ==
    {pre \o w \o suf :
        pre \in UNION {[1..n -> PreAlphabet] : n \in 0..MaxPre},
        w \in windows,
        suf \in UNION {[1..n -> SufAlphabet] : n \in 0..MaxSuf}}

\* the template with h as well as g where the template has g, and with one
\* instruction of another kind, of another operation, or with a literal where
\* the template has a register or a register where it has a literal
Split == [target EXCEPT ![8] = BinOp("Set", "h", R("e"))]

Mismatched ==
    {Split,
     [target EXCEPT ![1] = Jnz(R("e"), V(2))],
     [target EXCEPT ![5] = BinOp("Set", "g", V(2))],
     [target EXCEPT ![3] = BinOp("Sub", "g", R("e"))],
     [target EXCEPT ![1] = BinOp("Set", "e", R("a"))],
     [target EXCEPT ![2] = BinOp("Set", "g", V(5))],
     [target EXCEPT ![5] = Jnz(V(1), V(2))],
     [target EXCEPT ![5] = Jnz(R("g"), R("a"))]}

\* programs with two windows, with jumps whose offset is in a register, with
\* jumps to the first instruction of the window, and programs too short to
\* hold a window
Particular ==
    {Renamed(target, Swapped) \o target \o <<BinOp("Sub", "h", V(-1))>>,
     <<Jnz(V(1), V(30))>> \o target \o OtherLiterals
         \o <<Jnz(V(1), V(-29)), Jnz(V(1), V(-16))>>,
     Folded \o target \o <<Jnz(V(1), V(-15)), Jnz(V(1), V(-29))>>,
     <<Jnz(V(1), R("a"))>> \o target \o <<Jnz(R("a"), R("h"))>>,
     <<Jnz(V(1), V(1))>> \o target \o <<Jnz(V(1), V(-14))>>,
     SubSeq(target, 1, 13),
     <<BinOp("Set", "b", V(3))>>}

\* the puzzle's program with smaller numbers: b0 when a = 0; else every
\* second number from 2 * b0 + 1 to 2 * b0 + 5; h counts those that have a
\* divisor
Puzzle(b0) ==
    <<BinOp("Set", "b", V(b0)),
      BinOp("Set", "c", R("b")),
      Jnz(R("a"), V(2)),
      Jnz(V(1), V(5)),
      BinOp("Mul", "b", V(2)),
      BinOp("Sub", "b", V(-1)),
      BinOp("Set", "c", R("b")),
      BinOp("Sub", "c", V(-4)),
      BinOp("Set", "f", V(1)),
      BinOp("Set", "d", V(2))>>
    \o target \o
    <<Jnz(R("f"), V(2)),
      BinOp("Sub", "h", V(-1)),
      BinOp("Set", "g", R("b")),
      BinOp("Sub", "g", R("c")),
      Jnz(R("g"), V(2)),
      Jnz(V(1), V(3)),
      BinOp("Sub", "b", V(-2)),
      Jnz(V(1), V(-23))>>

PuzzleShaped == {Renamed(Puzzle(b0), ren) : b0 \in {3, 4}, ren \in Renamings}

\* programs given to part_2 in which no window unifies
Windowless ==
    {SubSeq(Puzzle(3), 1, 10) \o Folded \o SubSeq(Puzzle(3), 25, 32),
     Folded \o <<BinOp("Sub", "h", V(-1))>>,
     SubSeq(target, 1, 13),
     <<BinOp("Set", "b", V(3))>>}

\* a program that enters the window with b = b0, d = d0 and f = f0 and
\* leaves it for an instruction that does nothing
Entered(b0, d0, f0) ==
    <<BinOp("Set", "b", V(b0)), BinOp("Set", "d", V(d0)), BinOp("Set", "f", V(f0))>>
        \o target \o <<Jnz(V(0), V(1))>>

EntryFlags == {1, 5}

\* the entry states: b >= 3 and 2 <= d < b
Entries ==
    {e \in (3..MaxEntryB) \X (2..MaxEntryB) \X EntryFlags : e[2] < e[1]}

WindowShaped ==
    {Renamed(Entered(e[1], e[2], e[3]), ren) : e \in Entries, ren \in Renamings}

\* the initial values of register a that are compared
CheckedA == {0, 1}

in_bounds_opt(self) ==
    /\ \A r \in Reg23 : self.registers[r] \in -MaxOptVal..MaxOptVal
    /\ self.mul_count <= MaxOptMul

InitOpt ==
    /\ \/ /\ pc = "test"
          /\ instructions23 \in Around(Windows) \cup Particular
                 \cup {w \o <<BinOp("Sub", "h", V(-1))>> : w \in Mismatched}
          /\ mach23 = new23
       \/ /\ pc = "part_2"
          /\ instructions23 \in PuzzleShaped \cup Windowless \cup WindowShaped
          /\ \E a \in CheckedA : mach23 = [new23 EXCEPT !.registers["a"] = a]
    /\ optimized = <<>>
    /\ machine = new23
    /\ steps = [run \in {"optimized", "given"} |-> 0]
    /\ regmap = RegisterMapping_new
    /\ last_insert = NoInsert
    /\ inserted = {}
    /\ muls = 0
    /\ other = [i \in {0, 1} |-> [new(FALSE) EXCEPT !.registers["p"] = i]]
    /\ instructions = <<>>
    /\ mach = [i \in {0, 1} |-> new(FALSE)]
    /\ result = 0
    /\ sent = [i \in {0, 1} |-> <<>>]
    /\ rcvd = [i \in {0, 1} |-> <<>>]
    /\ skipped = [i \in {0, 1} |-> 0]
    /\ call = "none"

\* a test calls optimize
test_optimize ==
    /\ pc = "test"
    /\ IF optimize_panics(instructions23)
       THEN pc' = "panic" /\ UNCHANGED optimized
       ELSE pc' = "tested" /\ optimized' = optimize(instructions23)
    /\ UNCHANGED <<instructions, mach, result, sent, rcvd, skipped, call,
                   instructions23, mach23, machine, steps>>
    /\ UNCHANGED <<regmap, last_insert, inserted, other, muls>>

\* part_2 running the program as it was given when optimize finds no window
part_2_falls_back ==
    /\ pc = "part_2"
    /\ IF optimize_panics(instructions23)
       THEN pc' = "run_given" /\ UNCHANGED <<optimized, machine>>
       ELSE /\ pc' = "run_optimized"
            /\ optimized' = optimize(instructions23)
            /\ machine' = [new23 EXCEPT !.registers["a"] = mach23.registers["a"]]
    /\ UNCHANGED <<instructions, mach, result, sent, rcvd, skipped, call,
                   instructions23, mach23, steps>>
    /\ UNCHANGED <<regmap, last_insert, inserted, other, muls>>

\* part_2 up to the call of run(), with the value of a that is compared
part_2_optimize ==
    /\ pc = "part_2"
    /\ IF optimize_panics(instructions23)
       THEN pc' = "panic" /\ UNCHANGED <<optimized, machine>>
       ELSE /\ pc' = "run_optimized"
            /\ optimized' = optimize(instructions23)
            /\ machine' = [new23 EXCEPT !.registers["a"] = mach23.registers["a"]]
    /\ UNCHANGED <<instructions, mach, result, sent, rcvd, skipped, call,
                   instructions23, mach23, steps>>
    /\ UNCHANGED <<regmap, last_insert, inserted, other, muls>>

\* one iteration of run() in part_2; when run() returns, part_2 returns h
part_2_run_step ==
    /\ pc = "run_optimized"
    /\ IF step23_panics(machine, optimized)
       THEN pc' = "panic" /\ UNCHANGED <<machine, steps, result>>
       ELSE /\ in_bounds_opt(step23(machine, optimized))
            /\ machine' = step23(machine, optimized)
            /\ steps' = [steps EXCEPT !["optimized"] = @ + 1]
            /\ pc' = IF machine'.state = Pending THEN pc ELSE "run_given"
            /\ result' = IF machine'.state = Pending
                         THEN result ELSE machine'.registers["h"]
    /\ UNCHANGED <<instructions, mach, sent, rcvd, skipped, call,
                   instructions23, mach23, optimized>>
    /\ UNCHANGED <<regmap, last_insert, inserted, other, muls>>

\* one iteration of run() on the program as it was given
given_run_step ==
    /\ pc = "run_given"
    /\ IF step23_panics(mach23, instructions23)
       THEN pc' = "panic" /\ UNCHANGED <<mach23, steps>>
       ELSE /\ in_bounds_opt(step23(mach23, instructions23))
            /\ mach23' = step23(mach23, instructions23)
            /\ steps' = [steps EXCEPT !["given"] = @ + 1]
            /\ pc' = IF mach23'.state = Pending THEN pc ELSE "compared"
    /\ UNCHANGED <<instructions, mach, result, sent, rcvd, skipped, call,
                   instructions23, optimized, machine>>
    /\ muls' = muls_after(muls, mach23, instructions23)
    /\ UNCHANGED <<regmap, last_insert, inserted, other>>

NextOpt ==
    \/ test_optimize
    \/ part_2_optimize
    \/ part_2_run_step
    \/ given_run_step

SpecOpt == InitOpt /\ [][NextOpt]_vars

(***************************************************************************)
(* A client of RegisterMapping: new(), then calls of try_insert with any   *)
(* two of the first MaxMapped registers.                                   *)
(***************************************************************************)
\* Reg::all()
RegAll == <<"a", "b", "c", "d", "e", "f", "g", "h">>

MapRegs == {RegAll[n] : n \in 1..Min(MaxMapped, Len(RegAll))}

InitMap ==
    /\ pc = "map"
    /\ regmap = RegisterMapping_new
    /\ last_insert = NoInsert
    /\ inserted = {}
    /\ muls = 0
    /\ other = [i \in {0, 1} |-> [new(FALSE) EXCEPT !.registers["p"] = i]]
    /\ instructions = <<>>
    /\ instructions23 = <<>>
    /\ mach = [i \in {0, 1} |-> new(FALSE)]
    /\ mach23 = new23
    /\ optimized = <<>>
    /\ machine = new23
    /\ steps = [run \in {"optimized", "given"} |-> 0]
    /\ result = 0
    /\ sent = [i \in {0, 1} |-> <<>>]
    /\ rcvd = [i \in {0, 1} |-> <<>>]
    /\ skipped = [i \in {0, 1} |-> 0]
    /\ call = "new"

\* the client calls try_insert(reg1, reg2)
map_try_insert(reg1, reg2) ==
    /\ pc = "map"
    /\ regmap' = try_insert(regmap, reg1, reg2).mapping
    /\ last_insert' = [reg1 |-> reg1, reg2 |-> reg2,
                       ok |-> try_insert(regmap, reg1, reg2).ok]
    /\ inserted' = IF try_insert(regmap, reg1, reg2).ok
                   THEN inserted \cup {<<reg1, reg2>>} ELSE inserted
    /\ UNCHANGED <<instructions, mach, pc, result, sent, rcvd, skipped, call,
                   instructions23, mach23, optimized, machine, steps, muls,
                   other>>

NextMap == \E reg1 \in MapRegs, reg2 \in MapRegs : map_try_insert(reg1, reg2)

SpecMap == InitMap /\ [][NextMap]_vars

(***************************************************************************)
(* Claims about part_2                                                     *)
(***************************************************************************)
Blocked(i) == mach[i].state = WaitingForInput
NoInput(i) == mach[i].input_queue = <<>>
BlockedWithInput(i) == mach[i].state = WaitingForInput /\ mach[i].input_queue # <<>>

\* C1: on the program snd 1; snd 2; snd p; rcv a; rcv b; rcv c; rcv d part_2
\* terminates, with both machines WaitingForInput, both input queues empty and
\* the returned send count of machine 1 equal to 3.
C1_Example2Deadlocks ==
    (instructions = EXAMPLE2) ~>
        (/\ pc = "done"
         /\ result = 3
         /\ \A i \in {0, 1} : Blocked(i) /\ NoInput(i))

C1_Witness ==
    /\ instructions = EXAMPLE2
    /\ pc = "done"
    /\ result = 3
    /\ sent[1] = <<1, 2, 1>>
    /\ rcvd[1] = <<1, 2, 0>>

\* C2: when after the relay both machines are WaitingForInput with empty input
\* queues, the loop returns in that iteration, and the value returned is the
\* number of Snd instructions machine 1 has executed.
C2_DeadlockReturnsSendCount ==
    [][(pc = "decide" /\ \A i \in {0, 1} : Blocked(i) /\ NoInput(i))
         => (pc' = "done" /\ result' = Len(sent[1]))]_vars

C2_Witness ==
    /\ pc = "done"
    /\ \A i \in {0, 1} : Blocked(i) /\ NoInput(i)
    /\ result = Len(sent[1])
    /\ Len(sent[1]) > Len(sent[0])
    /\ Len(rcvd[0]) > 0

\* C3 as claimed: when part_2 returns with a machine that is not Stopped, both
\* machines are WaitingForInput and both input queues are empty.
C3_OnlyBothBlocked ==
    (pc = "done" /\ \E i \in {0, 1} : mach[i].state # Stopped)
        => \A i \in {0, 1} : Blocked(i) /\ NoInput(i)

\* C3: when part_2 returns, every machine that is not Stopped is WaitingForInput
\* with an empty input queue (the other machine may be Stopped, with input left).
C3_ReturnsWhenNoneCanGoOn ==
    pc = "done" =>
        \A i \in {0, 1} : mach[i].state = Stopped \/ (Blocked(i) /\ NoInput(i))

C3_Witness ==
    /\ pc = "done"
    /\ Blocked(0) /\ NoInput(0)
    /\ mach[1].state = Stopped
    /\ mach[1].input_queue # <<>>

\* C4: in each direction the values received, the values waiting in the
\* receiver's input queue and the values waiting in the sender's output queue
\* are, in this order, exactly the values the sender sent: the k-th value a
\* machine receives is the k-th value the other machine sent.
C4_FifoPerDirection ==
    \A i \in {0, 1} :
        sent[i] = rcvd[1 - i] \o mach[1 - i].input_queue \o mach[i].output_queue

C4_Witness ==
    /\ Len(rcvd[1]) >= 2
    /\ rcvd[1][1] # rcvd[1][2]
    /\ Len(rcvd[0]) >= 2
    /\ rcvd[0] # rcvd[1]

\* C5: a machine that is WaitingForInput with input after the relay keeps the loop
\* from returning and is resumed in this iteration or the next one; a resumed
\* machine is Pending while its run() lasts, and not Pending when it has returned.
C5_BlockedWithInputIsResumed ==
    \A i \in {0, 1} :
        /\ skipped[i] <= 1
        /\ pc = "done" => ~BlockedWithInput(i)
        /\ pc \in run_pcs(i) => mach[i].state = Pending
        /\ pc \in {"relay", "decide", "done"} => mach[i].state # Pending

C5_Witness ==
    /\ skipped[1] = 1
    /\ pc = "run0"
    /\ BlockedWithInput(1)

(***************************************************************************)
(* Claims about Machine::step and Machine::run, for any client             *)
(***************************************************************************)
M == mach[0]
M23 == mach23

\* the step is a call of step() that returned, or an iteration of run()
StepCall18 ==
    \/ pc = "api18" /\ call' = "step" /\ pc' = "api18"
    \/ pc = "api18_run" /\ pc' # "panic"
    \/ pc = "part_1" /\ pc' # "panic"

StepCall23 ==
    \/ pc = "api23" /\ call' = "step" /\ pc' = "api23"
    \/ pc = "api23_run" /\ pc' # "panic"
    \/ pc = "part_1_23" /\ pc' # "panic"

\* a Pending machine is about to execute an instruction with this tag
Executes18(tag) ==
    M.state = Pending /\ M.ip < Len(instructions)
        /\ instructions[M.ip + 1].tag = tag

Executes23(tag) ==
    M23.state = Pending /\ M23.ip < Len(instructions23)
        /\ instructions23[M23.ip + 1].tag = tag

Instr18 == instructions[M.ip + 1]
Instr23 == instructions23[M23.ip + 1]

Operand(regs, x) == IF x.tag = "Reg" THEN regs[x.reg] ELSE x.val

\* the Rcv at ip goes on to read input: always, or if its register is not 0
MustRead == ~M.rcv_nonzero \/ M.registers[Instr18.reg] # 0

\* C6: a Pending machine that executes Rcv when it must read and its input queue
\* is empty becomes WaitingForInput and nothing else of it changes; a machine in
\* WaitingForInput stands at a Rcv.
C6_BlockedReceiveChangesOnlyState ==
    [][/\ (StepCall18 /\ Executes18("Rcv") /\ MustRead /\ M.input_queue = <<>>)
            => M' = [M EXCEPT !.state = WaitingForInput]
       /\ M'.state = WaitingForInput
            => (M'.ip < Len(instructions) /\ instructions[M'.ip + 1].tag = "Rcv")
      ]_vars

C6_Witness ==
    /\ pc = "api18"
    /\ call = "step"
    /\ M.rcv_nonzero
    /\ M.state = WaitingForInput
    /\ M.input_queue = <<>>
    /\ M.ip = 1
    /\ M.registers["a"] = 2

PoppedFront ==
    /\ M.input_queue # <<>>
    /\ M' = [M EXCEPT !.registers[Instr18.reg] = Head(M.input_queue),
                      !.input_queue = Tail(M.input_queue),
                      !.ip = M.ip + 1]

\* C7 as claimed: whenever a Rcv executed by a Pending machine does not block, the
\* front of the input queue is removed and stored in the register, and ip
\* advances by one.
C7_UnblockedReceivePops ==
    [][(StepCall18 /\ Executes18("Rcv") /\ ~(MustRead /\ M.input_queue = <<>>))
         => PoppedFront]_vars

\* C7: a Rcv executed by a Pending machine that must read and has input removes
\* the front of the input queue, stores it in the register and advances ip by
\* one; a Rcv that need not read (conditional mode, register 0) only advances ip.
C7_ReceivePopsFrontIfItReads ==
    [][(StepCall18 /\ Executes18("Rcv"))
         => /\ (MustRead /\ M.input_queue # <<>>) => PoppedFront
            /\ ~MustRead => M' = [M EXCEPT !.ip = M.ip + 1]
      ]_vars

C7_Witness ==
    /\ instructions = <<BinOp("Set", "a", V(2)), Rcv("a"), Rcv("p"),
                        Jgz(R("a"), V(-2))>>
    /\ M.rcv_nonzero
    /\ M.state = Pending
    /\ M.ip = 2
    /\ M.registers["a"] = 1
    /\ M.input_queue = <<2>>

\* C8: Snd appends the value of its operand at the back of the machine's output
\* queue, adds one to output_count, advances ip by one and changes nothing else;
\* no step lowers output_count, and the relay empties the output queues and
\* keeps the counts.
C8_SendAppendsAndCounts ==
    [][\A i \in {0, 1} :
         /\ (/\ pc \in run_pcs(i)
             /\ mach[i].state = Pending
             /\ mach[i].ip < Len(instructions)
             /\ instructions[mach[i].ip + 1].tag = "Snd")
              => mach'[i] =
                   [mach[i] EXCEPT
                      !.output_queue =
                          Append(@, Operand(mach[i].registers,
                                            instructions[mach[i].ip + 1].src)),
                      !.output_count = @ + 1,
                      !.ip = @ + 1]
         /\ mach'[i].output_count >= mach[i].output_count
         /\ pc = "relay"
              => /\ mach'[i].output_count = mach[i].output_count
                 /\ mach'[i].output_queue = <<>>
      ]_vars

C8_Witness ==
    /\ instructions = EXAMPLE2
    /\ pc = "decide"
    /\ mach[1].output_count = 3
    /\ mach[1].output_queue = <<>>
    /\ mach[0].input_queue = <<1, 2, 1>>

\* the jump at ip, if taken, leaves the program
JumpsOut(ip, delta, len) == ip + delta < 0 \/ ip + delta >= len

\* C9: the state of a machine changes only from Pending to WaitingForInput at a
\* Rcv with an empty input queue, from WaitingForInput to Pending in a call of
\* step() or run() with input, and from Pending to Stopped at the end of the
\* program or at a jump out of it. step() and run() leave a Stopped machine as
\* it is, with or without input, and a WaitingForInput machine without input.
C9_RunStateTransitions ==
    [][/\ M'.state # M.state =>
            \/ /\ M.state = Pending /\ M'.state = WaitingForInput
               /\ StepCall18 /\ Executes18("Rcv") /\ M.input_queue = <<>>
            \/ /\ M.state = WaitingForInput /\ M'.state = Pending
               /\ M.input_queue # <<>> /\ call' \in {"step", "run"}
            \/ /\ M.state = Pending /\ M'.state = Stopped
               /\ StepCall18
               /\ \/ M.ip >= Len(instructions)
                  \/ /\ Executes18("Jgz")
                     /\ JumpsOut(M.ip, Operand(M.registers, Instr18.delta),
                                 Len(instructions))
       /\ M.state = Stopped =>
            \/ M' = M
            \/ call' = "feed" /\ M' = [M EXCEPT !.input_queue = M'.input_queue]
            \/ call' = "pop_back" /\ M' = [M EXCEPT !.output_queue = M'.output_queue]
       /\ (M.state = WaitingForInput /\ M.input_queue = <<>>
              /\ call' \in {"step", "run"}) => M' = M
       /\ M23'.state # M23.state =>
            /\ M23.state = Pending /\ M23'.state = Stopped
            /\ StepCall23
            /\ \/ M23.ip >= Len(instructions23)
               \/ /\ Executes23("Jnz")
                  /\ JumpsOut(M23.ip, Operand(M23.registers, Instr23.delta),
                              Len(instructions23))
       /\ M23.state = Stopped => M23' = M23
      ]_vars

C9_Witness ==
    /\ pc = "api18"
    /\ call = "step"
    /\ M.state = Stopped
    /\ M.input_queue = <<1, 2>>
    /\ M.ip = Len(instructions)

\* what a conditional jump does to machine m, giving m2
JumpEffect(m, m2, taken, delta, len) ==
    IF taken
    THEN IF JumpsOut(m.ip, delta, len)
         THEN m2.state = Stopped
         ELSE m2 = [m EXCEPT !.ip = m.ip + delta]
    ELSE m2 = [m EXCEPT !.ip = m.ip + 1]

\* C10 as claimed: jgz and jnz are taken exactly when the condition is not 0.
C10_JumpsTakenIffNonzero ==
    [][/\ (StepCall18 /\ Executes18("Jgz"))
            => JumpEffect(M, M', Operand(M.registers, Instr18.check) # 0,
                          Operand(M.registers, Instr18.delta), Len(instructions))
       /\ (StepCall23 /\ Executes23("Jnz"))
            => JumpEffect(M23, M23', Operand(M23.registers, Instr23.check) # 0,
                          Operand(M23.registers, Instr23.delta),
                          Len(instructions23))
      ]_vars

\* C10: jnz (day 23) is taken exactly when its condition is not 0, positive or
\* negative; jgz (day 18) is taken exactly when its condition is greater than 0.
\* A jump that is not taken advances ip by one.
C10_JgzPositiveJnzNonzero ==
    [][/\ (StepCall18 /\ Executes18("Jgz"))
            => JumpEffect(M, M', Operand(M.registers, Instr18.check) > 0,
                          Operand(M.registers, Instr18.delta), Len(instructions))
       /\ (StepCall23 /\ Executes23("Jnz"))
            => JumpEffect(M23, M23', Operand(M23.registers, Instr23.check) # 0,
                          Operand(M23.registers, Instr23.delta),
                          Len(instructions23))
      ]_vars

C10_Witness ==
    /\ instructions = <<BinOp("Add", "a", V(-1)), Jgz(R("a"), V(2)),
                        Snd(R("a")), Rcv("a")>>
    /\ call = "step"
    /\ M.state = Pending
    /\ M.ip = 2
    /\ M.registers["a"] = -1

\* what a jump leaves alone: registers, queues and counters
JumpFrame18 ==
    /\ M'.registers = M.registers
    /\ M'.input_queue = M.input_queue
    /\ M'.output_queue = M.output_queue
    /\ M'.output_count = M.output_count
    /\ M'.rcv_nonzero = M.rcv_nonzero

JumpFrame23 ==
    /\ M23'.registers = M23.registers
    /\ M23'.mul_count = M23.mul_count

\* a taken jump: to the target when it is an instruction, else the machine stops
TakenJump(m, m2, delta, len) ==
    IF m.ip + delta >= 0 /\ m.ip + delta < len
    THEN m2.ip = m.ip + delta /\ m2.state = Pending
    ELSE m2.state = Stopped

\* C11: a taken jump whose target ip + offset is in [0, length) sets ip to
\* exactly that target and leaves the machine Pending; a taken jump whose target
\* is negative or at least length (length itself included) stops the machine,
\* and a Stopped machine executes nothing more. No jump, taken or not, changes
\* a register, a queue or a counter.
C11_JumpLandsInRangeOrStops ==
    [][/\ (StepCall18 /\ Executes18("Jgz"))
            => /\ JumpFrame18
               /\ Operand(M.registers, Instr18.check) > 0
                    => TakenJump(M, M', Operand(M.registers, Instr18.delta),
                                 Len(instructions))
       /\ (StepCall23 /\ Executes23("Jnz"))
            => /\ JumpFrame23
               /\ Operand(M23.registers, Instr23.check) # 0
                    => TakenJump(M23, M23', Operand(M23.registers, Instr23.delta),
                                 Len(instructions23))
       /\ M.state = Stopped
            => \/ M' = M
               \/ call' = "feed" /\ M' = [M EXCEPT !.input_queue = M'.input_queue]
               \/ call' = "pop_back" /\ M' = [M EXCEPT !.output_queue = M'.output_queue]
       /\ M23.state = Stopped => M23' = M23
      ]_vars

\* machine stopped by `jgz p 2` at index 0 of a program of length 2
C11_Witness ==
    /\ instructions = <<Jgz(R("p"), V(2)), Snd(V(1))>>
    /\ M.registers["p"] = 1
    /\ M.state = Stopped
    /\ M.ip = 1
    /\ M.output_count = 0

(***************************************************************************)
(* Reference arithmetic, written from the mathematics and not from apply:  *)
(* the remainder is the r with lhs = q * rhs + r, |r| < |rhs| and the   *)
(* sign of lhs.                                                         *)
(***************************************************************************)
Remainder(lhs, rhs) ==
    CHOOSE r \in -(Abs(rhs) - 1)..(Abs(rhs) - 1) :
        /\ r = 0 \/ (r > 0) = (lhs > 0)
        /\ \E q \in -Abs(lhs)..Abs(lhs) : lhs = q * rhs + r

Exact(op, lhs, rhs) ==
    CASE op = "Set" -> rhs
      [] op = "Add" -> lhs + rhs
      [] op = "Sub" -> lhs - rhs
      [] op = "Mul" -> lhs * rhs
      [] op = "Mod" -> Remainder(lhs, rhs)

\* the operation has a result in the machine word
Representable(op, lhs, rhs) ==
    IF op = "Mod"
    THEN rhs # 0 /\ ~(lhs = INT_MIN /\ rhs = -1)
    ELSE Exact(op, lhs, rhs) \in INT_MIN..INT_MAX

StraightLine(instrs) ==
    \A k \in 1..Len(instrs) : instrs[k].tag \in {"BinOp", "Snd"}

\* the registers after the first k instructions of a straight-line program are
\* applied one after the other to registers regs
RECURSIVE Sequential(_, _, _)
Sequential(regs, instrs, k) ==
    IF k = 0
    THEN regs
    ELSE LET before == Sequential(regs, instrs, k - 1)
             instr == instrs[k] IN
         IF instr.tag = "BinOp"
         THEN [before EXCEPT ![instr.reg] =
                   Exact(instr.op, @, Operand(before, instr.rhs))]
         ELSE before

\* the arithmetic of the first k instructions stays in the machine word
RECURSIVE StaysInRange(_, _, _)
StaysInRange(regs, instrs, k) ==
    \/ k = 0
    \/ /\ StaysInRange(regs, instrs, k - 1)
       /\ LET before == Sequential(regs, instrs, k - 1)
              instr == instrs[k] IN
          instr.tag = "BinOp"
              => Representable(instr.op, before[instr.reg],
                               Operand(before, instr.rhs))

\* a straight-line machine m of program instrs, begun with registers regs, that
\* takes a step to m2: one instruction further, or Stopped at the end
StraightStep(m, m2, regs, instrs) ==
    /\ m.state = Pending /\ m.ip < Len(instrs)
         => m2.ip = m.ip + 1 /\ m2.state = Pending
    /\ m.state = Pending /\ m.ip = Len(instrs)
         => m2 = [m EXCEPT !.state = Stopped]
    /\ m2.ip \in 0..Len(instrs)
    /\ m2.registers = Sequential(regs, instrs, m2.ip)
    /\ m2.state = Stopped => m2.ip = Len(instrs)

\* the registers a machine of the API client starts with
InitialRegisters18 ==
    {[new(FALSE).registers EXCEPT !["p"] = p] : p \in {0, 1}}

\* C12: in a program without jumps and without Rcv whose arithmetic stays in
\* range, every step of run() executes the instruction at ip and moves ip one
\* further, so run() executes each instruction once, in order, and after
\* length steps stops the machine with ip = length; the registers are then,
\* as after every step, those of applying the operations one after the other.
\* No step of such a program panics.
C12_StraightLineRunsToEnd ==
    [][/\ (pc \in {"api18", "api18_run"} /\ StraightLine(instructions))
            => \E regs \in InitialRegisters18 :
                 /\ M.registers = Sequential(regs, instructions, M.ip)
                 /\ StaysInRange(regs, instructions, Len(instructions))
                      => /\ pc' # "panic"
                         /\ StepCall18 => StraightStep(M, M', regs, instructions)
       /\ (pc \in {"api23", "api23_run"} /\ StraightLine(instructions23))
            => (StaysInRange(new23.registers, instructions23, Len(instructions23))
                  => /\ pc' # "panic"
                     /\ StepCall23 => StraightStep(M23, M23', new23.registers,
                                                   instructions23))
      ]_vars

\* run() has ended `set a 2; mul a a; sub a 1` with a = 3
C12_Witness ==
    /\ instructions23 = <<BinOp("Set", "a", V(2)), BinOp("Mul", "a", R("a")),
                          BinOp("Sub", "a", V(1))>>
    /\ pc = "api23"
    /\ call = "run"
    /\ M23.state = Stopped
    /\ M23.ip = 3
    /\ M23.registers["a"] = 3
    /\ M23.mul_count = 1

\* the client calls step(), or run() is in its loop: the step may panic
Attempt18 == (pc = "api18" /\ call' = "step") \/ pc = "api18_run" \/ pc = "part_1"
Attempt23 == (pc = "api23" /\ call' = "step") \/ pc = "api23_run" \/ pc = "part_1_23"

\* the BinOp at ip has an exact result outside the machine word
Overflows(regs, instr) ==
    /\ instr.op \in {"Add", "Sub", "Mul"}
    /\ Exact(instr.op, regs[instr.reg], Operand(regs, instr.rhs))
           \notin INT_MIN..INT_MAX

\* C13: an Add, Sub or Mul whose exact result is outside the machine word
\* (INT_MAX + 1, INT_MIN - 1, INT_MAX * 2) aborts with a panic that leaves
\* nothing to run; no register ever holds a value outside the word, so none
\* holds a wrapped or saturated result; Set never panics.  (The word is the
\* model's 16-bit INT_MIN..INT_MAX, standing for i64.)
C13_OverflowPanics ==
    [][/\ pc # "panic"
       /\ (Attempt18 /\ Executes18("BinOp"))
            => /\ Overflows(M.registers, Instr18) => (pc' = "panic" /\ M' = M)
               /\ Instr18.op = "Set" => pc' # "panic"
               /\ (pc' # "panic" /\ Instr18.op \in {"Add", "Mul"})
                    => M'.registers[Instr18.reg] =
                         Exact(Instr18.op, M.registers[Instr18.reg],
                               Operand(M.registers, Instr18.rhs))
       /\ (Attempt23 /\ Executes23("BinOp"))
            => /\ Overflows(M23.registers, Instr23)
                    => (pc' = "panic" /\ M23' = M23)
               /\ Instr23.op = "Set" => pc' # "panic"
               /\ (pc' # "panic" /\ Instr23.op \in {"Sub", "Mul"})
                    => M23'.registers[Instr23.reg] =
                         Exact(Instr23.op, M23.registers[Instr23.reg],
                               Operand(M23.registers, Instr23.rhs))
       /\ \A r \in Reg : M'.registers[r] \in INT_MIN..INT_MAX
       /\ \A r \in Reg23 : M23'.registers[r] \in INT_MIN..INT_MAX
      ]_vars

\* `set a INT_MAX; add a p` with p = 1 has panicked at the add
C13_Witness ==
    /\ pc = "panic"
    /\ instructions = <<BinOp("Set", "a", V(INT_MAX)), BinOp("Add", "a", R("p"))>>
    /\ M.registers["p"] = 1
    /\ M.registers["a"] = INT_MAX
    /\ M.ip = 1

\* the Mod at ip cannot be computed: divisor 0, or INT_MIN mod -1
ModFails(regs, instr) ==
    \/ Operand(regs, instr.rhs) = 0
    \/ regs[instr.reg] = INT_MIN /\ Operand(regs, instr.rhs) = -1

\* r is the remainder of lhs by rhs truncated toward zero
IsTruncatedRemainder(r, lhs, rhs) ==
    /\ r = Remainder(lhs, rhs)
    /\ Abs(r) < Abs(rhs)
    /\ lhs >= 0 => r >= 0
    /\ lhs <= 0 => r <= 0

\* C14: Mod stores the remainder truncated toward zero, which has the sign of
\* the destination's old value (-7 mod 5 = -2) and leaves the rest of the
\* machine alone but for ip; Mod with a source of 0, and INT_MIN mod -1, abort
\* with a panic.
C14_ModTruncatesOrPanics ==
    [][/\ (Attempt18 /\ Executes18("BinOp") /\ Instr18.op = "Mod")
            => IF ModFails(M.registers, Instr18)
               THEN pc' = "panic" /\ M' = M
               ELSE /\ pc' # "panic"
                    /\ IsTruncatedRemainder(M'.registers[Instr18.reg],
                                            M.registers[Instr18.reg],
                                            Operand(M.registers, Instr18.rhs))
                    /\ M' = [M EXCEPT !.registers[Instr18.reg] =
                                          M'.registers[Instr18.reg],
                                      !.ip = M.ip + 1]
       /\ (Attempt23 /\ Executes23("BinOp") /\ Instr23.op = "Mod")
            => IF ModFails(M23.registers, Instr23)
               THEN pc' = "panic" /\ M23' = M23
               ELSE /\ pc' # "panic"
                    /\ IsTruncatedRemainder(M23'.registers[Instr23.reg],
                                            M23.registers[Instr23.reg],
                                            Operand(M23.registers, Instr23.rhs))
                    /\ M23' = [M23 EXCEPT !.registers[Instr23.reg] =
                                              M23'.registers[Instr23.reg],
                                          !.ip = M23.ip + 1]
      ]_vars

\* `set a -7; mod a 5` has left -2 in a
C14_Witness ==
    /\ instructions = <<BinOp("Set", "a", V(-7)), BinOp("Mod", "a", V(5))>>
    /\ M.ip = 2
    /\ M.registers["a"] = -2

(***************************************************************************)
(* Claims about optimize and part_2 of day 23                              *)
(***************************************************************************)
\* both runs of part_2's comparison have ended
Compared == pc = "compared"

\* the register a program of the puzzle's shape uses as c, the last number tried
LastTried(instrs) == instrs[2].reg

\* step() calls that suffice for a run over numbers up to c
Budget(c) == 30 * c * c + 10

\* a run that has not ended has a next step, which does not panic and stays in
\* the part the model explores
GoesOn ==
    /\ pc = "run_optimized"
         => /\ ~step23_panics(machine, optimized)
            /\ in_bounds_opt(step23(machine, optimized))
    /\ pc = "run_given"
         => /\ ~step23_panics(mach23, instructions23)
            /\ in_bounds_opt(step23(mach23, instructions23))

\* C15: for a program of the puzzle's shape, under either renaming of the
\* registers, and for every checked initial value of a, the program returned by
\* optimize and the program as given both run to Stopped (no panic, always a
\* next step until both runs have ended, and a number of steps bounded by the
\* numbers tried) and end with the same value in h.
C15_SameResultInH ==
    instructions23 \in PuzzleShaped =>
        /\ pc # "panic"
        /\ GoesOn
        /\ \A run \in DOMAIN steps :
               steps[run] <= Budget(mach23.registers[LastTried(instructions23)])
                   \/ steps[run] <= Budget(machine.registers[LastTried(instructions23)])
        /\ Compared => /\ machine.state = Stopped
                       /\ mach23.state = Stopped
                       /\ machine.registers["h"] = mach23.registers["h"]

\* 9, 11 and 13 were tried, c being renamed to b: h = 1 in both runs, and the
\* optimized run has multiplied once, in the prefix
C15_Witness ==
    /\ Compared
    /\ instructions23 = Renamed(Puzzle(4), Swapped)
    /\ mach23.registers["a"] = 1
    /\ mach23.registers[Swapped["c"]] = 13
    /\ machine.registers["h"] = 1
    /\ machine.mul_count = 1
    /\ mach23.mul_count = 252

\* C16 as claimed: the two runs end with the same values in all eight registers.
C16_SameRegisters ==
    Compared => machine.registers = mach23.registers

\* the registers the window uses as its loop counters d and e
Counters(instrs) ==
    LET i == first_match(instrs)
        mapping == extract_register_mapping(slice_from(instrs, i), target).mapping IN
    {reverse_reg(mapping, "d"), reverse_reg(mapping, "e")}

\* C16: for a program of the puzzle's shape and every checked initial value of
\* a, the two runs end, and with the same values in every register but the window's
\* loop counters d and e: in a, b, c, f, g and h.  The counter e of the
\* optimized run is never written.
C16_SameRegistersButCounters ==
    /\ instructions23 \in PuzzleShaped => (pc # "panic" /\ GoesOn)
    /\ Compared =>
        /\ \A r \in Reg23 \ Counters(instructions23) :
               machine.registers[r] = mach23.registers[r]
        /\ machine.registers[reverse_reg(
               extract_register_mapping(
                   slice_from(instructions23, first_match(instructions23)),
                   target).mapping, "e")] = 0

\* b = 4 has the divisor 2: the optimized run ends with d = 2 and e = 0, the
\* run of the program as given with d = e = 4
C16_Witness ==
    /\ Compared
    /\ instructions23 = Puzzle(4)
    /\ mach23.registers["a"] = 0
    /\ machine.registers["d"] = 2 /\ machine.registers["e"] = 0
    /\ mach23.registers["d"] = 4 /\ mach23.registers["e"] = 4
    /\ machine.registers["h"] = 1

\* optimize has returned
Returned == optimized # <<>>

\* where the window rewritten was, and by how much the suffix has moved
WindowAt == first_match(instructions23)
Moved == Len(replacement) - Len(target)

\* the instruction at index j of the input, of the output (indices from 0)
Given(j) == instructions23[j + 1]
Rewritten(j) == optimized[j + 1]

LiteralJump(instr) == instr.tag = "Jnz" /\ instr.delta.tag = "Value"

\* the same instruction, but for the literal offset if it is a jump
SameButOffset(x, y) ==
    \/ x = y
    \/ LiteralJump(x) /\ LiteralJump(y) /\ x.check = y.check

\* indices of the literal-offset jumps after the window whose target is an
\* instruction before the window
BackOverWindow ==
    {j \in (WindowAt + Len(target))..(Len(instructions23) - 1) :
        /\ LiteralJump(Given(j))
        /\ j + Given(j).delta.val \in 0..(WindowAt - 1)}

\* indices of the literal-offset jumps before the window whose target is at or
\* beyond the window's end
OverWindow ==
    {j \in 0..(WindowAt - 1) :
        /\ LiteralJump(Given(j))
        /\ j + Given(j).delta.val >= WindowAt + Len(target)}

\* C17: a literal-offset backward jump after the window whose target is an
\* instruction before the window is found Moved (= -5) positions earlier in the
\* output of optimize, still a literal-offset jump on the same condition, and
\* its absolute target there is the same index as in the input, where the
\* instruction of the input stands.
C17_BackwardJumpKeepsTarget ==
    Returned =>
        \A j \in BackOverWindow :
            LET jump == Rewritten(j + Moved)
                to == j + Given(j).delta.val IN
            /\ LiteralJump(jump)
            /\ jump.check = Given(j).check
            /\ (j + Moved) + jump.delta.val = to
            /\ SameButOffset(Rewritten(to), Given(to))

\* `jnz 1 -15` at index 15, after the window at 1, targets index 0 from index 10
C17_Witness ==
    /\ pc = "tested"
    /\ instructions23 = <<BinOp("Set", "b", V(3))>> \o target \o <<Jnz(V(1), V(-15))>>
    /\ BackOverWindow = {15}
    /\ Rewritten(10) = Jnz(V(1), V(-10))
    /\ Rewritten(0) = BinOp("Set", "b", V(3))

\* C18: a literal-offset jump before the window whose target is at or beyond
\* the window's end gets Moved (= 9 - 14 = -5) added to its offset, so that it
\* targets the instruction of the suffix it targeted, or stays out of range; a
\* jump before the window whose target is before the window's end, and every
\* other instruction before the window, is kept as it is.
C18_PrefixJumpOverWindow ==
    Returned =>
        /\ Moved = -5
        /\ \A j \in OverWindow :
               LET to == j + Given(j).delta.val IN
               /\ Rewritten(j) = Jnz(Given(j).check, V(Given(j).delta.val + Moved))
               /\ to < Len(instructions23)
                    => SameButOffset(Rewritten(to + Moved), Given(to))
               /\ to >= Len(instructions23) => to + Moved >= Len(optimized)
        /\ \A j \in (0..(WindowAt - 1)) \ OverWindow : Rewritten(j) = Given(j)

\* `jnz 1 15` at index 0 targets the first instruction after the window at 1
C18_Witness ==
    /\ pc = "tested"
    /\ instructions23 = <<Jnz(V(1), V(15))>> \o target \o <<BinOp("Sub", "h", V(-1))>>
    /\ OverWindow = {0}
    /\ Rewritten(0) = Jnz(V(1), V(10))
    /\ Rewritten(10) = BinOp("Sub", "h", V(-1))

\* C19 as claimed: a backward jump after the window whose target is before the
\* window gets the adjustment of the prefix jumps: offset + Moved.
C19_SuffixAdjustedAsPrefix ==
    Returned =>
        \A j \in BackOverWindow :
            Rewritten(j + Moved).delta.val = Given(j).delta.val + Moved

\* C19: a literal-offset backward jump after the window whose target is an
\* instruction before the window gets the opposite of the adjustment of the
\* prefix jumps: Moved is subtracted from its offset (5 is added), so the
\* jump is 5 shorter.
C19_SuffixOffsetMinusMoved ==
    Returned =>
        \A j \in BackOverWindow :
            /\ Given(j).delta.val < 0
            /\ Rewritten(j + Moved) =
                   Jnz(Given(j).check, V(Given(j).delta.val - Moved))

\* `jnz f -16` at index 17, after the renamed window at 2, has become
\* `jnz f -11` at index 12
C19_Witness ==
    /\ pc = "tested"
    /\ instructions23 = <<Jnz(V(1), V(-1)), BinOp("Set", "b", V(3))>>
                            \o Renamed(target, Swapped)
                            \o <<BinOp("Sub", "h", V(-1)), Jnz(R("f"), V(-16))>>
    /\ 17 \in BackOverWindow
    /\ Rewritten(12) = Jnz(R("f"), V(-11))

\* the window of 14 instructions at offset i unifies with the template
Unifies(instrs, i) ==
    extract_register_mapping(SubSeq(instrs, i + 1, i + Len(target)), target).some

\* the offsets of the windows that unify, the last possible one included
Unifying(instrs) ==
    {i \in 0..(Len(instrs) - Len(target)) : Unifies(instrs, i)}

Lowest(S) == CHOOSE i \in S : \A k \in S : i <= k

\* the instructions of a program with this operation
CountOp(instrs, op) ==
    Cardinality({k \in 1..Len(instrs) : instrs[k].tag = "BinOp" /\ instrs[k].op = op})

\* C20: the output of optimize is the input with exactly one window rewritten,
\* the one at the lowest offset that unifies: the instructions before it and
\* after it are those of the input in order (but for literal offsets of
\* jumps), so a later window that unifies is found unchanged, 5 positions
\* earlier; at the offset stands the replacement; the output is 14 - 9
\* instructions shorter.  optimize returns whenever two or more windows unify.
C20_FirstWindowOnly ==
    /\ (pc \in {"test", "part_2"} /\ Cardinality(Unifying(instructions23)) >= 2)
          => ~optimize_panics(instructions23)
    /\ Returned =>
        LET i == Lowest(Unifying(instructions23)) IN
        /\ Len(optimized) = Len(instructions23) - 14 + 9
        /\ \A k \in 0..(i - 1) : SameButOffset(Rewritten(k), Given(k))
        /\ \A k \in 1..Len(replacement) :
               /\ Rewritten(i + k - 1).tag = replacement[k].tag
               /\ replacement[k].tag = "BinOp"
                    => Rewritten(i + k - 1).op = replacement[k].op
        /\ \A k \in (i + 14)..(Len(instructions23) - 1) :
               SameButOffset(Rewritten(k - 5), Given(k))
        /\ \A w \in Unifying(instructions23) \ {i} :
               /\ w >= i + 14
               /\ SubSeq(optimized, w - 5 + 1, w - 5 + 14)
                      = SubSeq(instructions23, w + 1, w + 14)
        /\ CountOp(optimized, "Mod") = CountOp(instructions23, "Mod") + 1
        /\ CountOp(optimized, "Mul") = CountOp(instructions23, "Mul") - 1

\* of the two windows, the renamed one at 0 and the template's own at 14, the
\* first is rewritten and the second follows it unchanged
C20_Witness ==
    /\ pc = "tested"
    /\ instructions23 = Renamed(target, Swapped) \o target
                            \o <<BinOp("Sub", "h", V(-1))>>
    /\ Unifying(instructions23) = {0, 14}
    /\ Len(optimized) = 24
    /\ SubSeq(optimized, 1, 9) = Renamed(replacement, Swapped)
    /\ SubSeq(optimized, 10, 23) = target

\* out holds, outside the window rewritten at offset i, the instructions of inp
\* in order, the same but for the literal offsets of the jumps over the window
OutsideKept(inp, out, i) ==
    /\ \A j \in 0..(i - 1) :
           LET x == inp[j + 1]
               y == out[j + 1] IN
           IF LiteralJump(x) /\ j + x.delta.val >= i + Len(target)
           THEN y = Jnz(x.check, V(x.delta.val + Moved))
           ELSE y = x
    /\ \A j \in (i + Len(target))..(Len(inp) - 1) :
           LET x == inp[j + 1]
               y == out[j + Moved + 1] IN
           IF LiteralJump(x) /\ j + x.delta.val < i
           THEN IF j + x.delta.val >= 0
                THEN y = Jnz(x.check, V(x.delta.val - Moved))
                ELSE SameButOffset(y, x)
           ELSE y = x

\* C21: the call of optimize leaves its input as it was, and its output holds,
\* before and after the rewritten window, copies of the input's instructions
\* in order; only the literal offset of a jump differs, and only of a jump
\* before the window to at or beyond its end (always) or of a jump after the
\* window to before its start (always when the target is an instruction).
\* Conditions of jumps, offsets in registers and instructions that are not
\* jumps are copied as they are.
C21_OutsideWindowKept ==
    [][(pc \in {"test", "part_2"} /\ pc' # "panic")
         => /\ instructions23' = instructions23
            /\ OutsideKept(instructions23, optimized',
                           Lowest(Unifying(instructions23)))
      ]_vars

\* jumps with offsets in registers, before and after the window, are copied
C21_Witness ==
    /\ pc = "tested"
    /\ instructions23 = <<Jnz(V(1), R("a"))>> \o target \o <<Jnz(R("a"), R("h"))>>
    /\ Rewritten(0) = Jnz(V(1), R("a"))
    /\ Rewritten(10) = Jnz(R("a"), R("h"))
    /\ Len(optimized) = 11


\* C22: optimize fails with "Target not found!" only if no window of 14
\* instructions unifies with the template at any offset from 0 to
\* length - 14, both included; whenever some window unifies, the one ending
\* at the end of the program included, optimize returns a rewritten program.
C22_FailsOnlyWithoutWindow ==
    [][(pc \in {"test", "part_2"} /\ pc' = "panic")
         => Unifying(instructions23) = {}
      ]_vars


\* C23: when no window of the program unifies with the template, the call of
\* optimize is the only step taken: it ends in the panic, gives no program,
\* and part_2 creates no machine, runs nothing (neither an optimized program
\* nor the program as given) and returns no value.
C23_NoWindowAborts ==
    [][Unifying(instructions23) = {}
         => /\ pc \in {"test", "part_2"}
            /\ pc' = "panic"
            /\ optimized' = <<>>
            /\ UNCHANGED <<machine, mach23, steps, result, instructions23>>
      ]_vars

\* part_2 has panicked on a program as long as the puzzle's without a window
C23_Witness ==
    /\ pc = "panic"
    /\ instructions23 = SubSeq(Puzzle(3), 1, 10) \o Folded \o SubSeq(Puzzle(3), 25, 32)
    /\ mach23.registers["a"] = 1
    /\ optimized = <<>>
    /\ steps = [run \in {"optimized", "given"} |-> 0]


\* an operand, an instruction, with the value of every literal put to 0
Erased(x) == IF x.tag = "Value" THEN V(0) ELSE x
ErasedInstr(instr) ==
    IF instr.tag = "BinOp"
    THEN BinOp(instr.op, instr.reg, Erased(instr.rhs))
    ELSE Jnz(Erased(instr.check), Erased(instr.delta))

\* two windows that differ in the values of literals only
SameButLiterals(w, t) ==
    /\ Len(w) = Len(t)
    /\ \A k \in 1..Len(t) : ErasedInstr(w[k]) = ErasedInstr(t[k])

Window(instrs, i) == SubSeq(instrs, i + 1, i + Len(target))

\* C24: the literals of a window are not compared with the template's: every
\* window that differs from a renamed template in literal values only (in
\* Set and Sub literals, in literal offsets of jumps) unifies, and where it
\* is the window rewritten, the output holds the fixed replacement under the
\* same renaming, whatever the literals of the window were.
C24_LiteralsNotCompared ==
    \A i \in 0..(Len(instructions23) - Len(target)) : \A ren \in Renamings :
        SameButLiterals(Window(instructions23, i), Renamed(target, ren))
          => /\ Unifies(instructions23, i)
             /\ (Returned /\ i = Lowest(Unifying(instructions23)))
                   => SubSeq(optimized, i + 1, i + Len(replacement))
                          = Renamed(replacement, ren)

\* a window with other offsets in its three jumps and another Sub literal,
\* rewritten as the template's own window is
C24_Witness ==
    /\ pc = "tested"
    /\ instructions23 = Renamed(OtherOffsets, Rotated) \o <<BinOp("Sub", "h", V(-1))>>
    /\ Given(4) = Jnz(R("c"), V(3))
    /\ Given(10) = BinOp("Sub", "f", V(-3))
    /\ optimized = Renamed(replacement, Rotated) \o <<BinOp("Sub", "h", V(-1))>>


\* the instruction is of the template's kind and operation, with registers
\* exactly where the template's instruction has registers
SameShape(x, t) ==
    /\ x.tag = t.tag
    /\ x.tag = "BinOp" => (x.op = t.op /\ x.rhs.tag = t.rhs.tag)
    /\ x.tag = "Jnz" => (x.check.tag = t.check.tag /\ x.delta.tag = t.delta.tag)

\* the registers an instruction names, in order of its operands
RegsOf(x) ==
    LET regs(operand) == IF operand.tag = "Reg" THEN <<operand.reg>> ELSE <<>> IN
    IF x.tag = "BinOp" THEN <<x.reg>> \o regs(x.rhs)
    ELSE regs(x.check) \o regs(x.delta)

\* the pairs <<register of the window, register of the template>>
Pairs(w, t) ==
    UNION {{<<RegsOf(w[k])[n], RegsOf(t[k])[n]>> : n \in 1..Len(RegsOf(t[k]))}
              : k \in 1..Len(t)}

OneToOne(P) == \A p \in P, q \in P : (p[1] = q[1]) <=> (p[2] = q[2])

\* C25: a window unifies only if, at each of the 14 positions, its
\* instruction is of the template's kind and operation and has a register
\* exactly where the template's has one, and the pairs of registers are a
\* one-to-one correspondence: no register of the window stands for two of the
\* template, and no two registers of the window for one of the template.
\* (Every such window does unify.)
C25_UnifiesOnlyOneToOne ==
    \A i \in 0..(Len(instructions23) - Len(target)) :
        LET w == Window(instructions23, i) IN
        Unifies(instructions23, i)
            <=> /\ \A k \in 1..Len(target) : SameShape(w[k], target[k])
                /\ OneToOne(Pairs(w, target))

\* optimize has found no window in the program whose window has g and h for
\* the template's g, nor in the one with g for the template's g and d
C25_Witness ==
    /\ pc = "panic"
    /\ \/ instructions23 = Split \o <<BinOp("Sub", "h", V(-1))>>
       \/ instructions23 = Folded \o <<BinOp("Sub", "h", V(-1))>>
    /\ \A k \in 1..Len(target) : SameShape(instructions23[k], target[k])
    /\ ~OneToOne(Pairs(Window(instructions23, 0), target))
    /\ Unifying(instructions23) = {}


\* the register of the window that pairs P give to a register of the template
PairedWith(P, reg) == CHOOSE c \in Reg23 \cup {None} :
                          \/ <<c, reg>> \in P
                          \/ c = None /\ ~\E p \in P : p[2] = reg

TranslatedOperand(P, x) == IF x.tag = "Reg" THEN R(PairedWith(P, x.reg)) ELSE x

\* an instruction over the template's registers, over the window's
Translated(P, instr) ==
    IF instr.tag = "BinOp"
    THEN BinOp(instr.op, PairedWith(P, instr.reg), TranslatedOperand(P, instr.rhs))
    ELSE Jnz(TranslatedOperand(P, instr.check), TranslatedOperand(P, instr.delta))

\* the registers the replacement names
ReplacementRegs ==
    UNION {{RegsOf(replacement[k])[n] : n \in 1..Len(RegsOf(replacement[k]))}
              : k \in 1..Len(replacement)}

\* C26: the replacement names the template's b, d, f and g only; wherever a
\* window unifies each of them has a register of the window paired with it,
\* in the mapping returned as well, so the translation of the replacement
\* never fails; and each instruction of the rewritten window is the
\* replacement's instruction at that position with every register replaced
\* by the window's register paired with it, and every literal unchanged.
C26_ReplacementTranslated ==
    /\ ReplacementRegs = {"b", "d", "f", "g"}
    /\ \A i \in Unifying(instructions23) :
           LET mapping == extract_register_mapping(Window(instructions23, i),
                                                   target).mapping IN
           \A reg \in ReplacementRegs :
               /\ \E p \in Pairs(Window(instructions23, i), target) : p[2] = reg
               /\ reverse_reg(mapping, reg)
                      = PairedWith(Pairs(Window(instructions23, i), target), reg)
    /\ Returned =>
           LET i == Lowest(Unifying(instructions23))
               P == Pairs(Window(instructions23, i), target) IN
           \A k \in 1..Len(replacement) :
               /\ Rewritten(i + k - 1) = Translated(P, replacement[k])
               /\ \A n \in 1..Len(RegsOf(Rewritten(i + k - 1))) :
                      RegsOf(Rewritten(i + k - 1))[n] \in Reg23

\* the window has d, f, b, c where the template has b, d, f, g, and so has
\* the rewritten window
C26_Witness ==
    /\ pc = "tested"
    /\ instructions23 = <<BinOp("Set", "b", V(3))>> \o Renamed(target, Rotated)
                            \o <<BinOp("Sub", "h", V(-1))>>
    /\ SubSeq(optimized, 2, 10) = Renamed(replacement, Rotated)
    /\ Rewritten(1) = BinOp("Set", "c", R("d"))


(***************************************************************************)
(* Claims about RegisterMapping                                            *)
(***************************************************************************)
\* C27: once try_insert(a, b) has returned true on a mapping, every later
\* try_insert(a, c) with c # b returns false, every later try_insert(d, b)
\* with d # a returns false, and every later try_insert(a, b) returns true.
C27_PartialBijection ==
    [][\A p \in inserted :
          /\ (last_insert'.reg1 = p[1] /\ last_insert'.reg2 # p[2])
                => ~last_insert'.ok
          /\ (last_insert'.reg2 = p[2] /\ last_insert'.reg1 # p[1])
                => ~last_insert'.ok
          /\ (last_insert'.reg1 = p[1] /\ last_insert'.reg2 = p[2])
                => last_insert'.ok
      ]_vars

\* with a paired with b and c with d, try_insert(e, b) has been refused,
\* where e has no pair yet
C27_Witness ==
    /\ inserted = {<<"a", "b">>, <<"c", "d">>}
    /\ last_insert = [reg1 |-> "d", reg2 |-> "b", ok |-> FALSE]
    /\ regmap.forward["d"] = None

\* C28: in every mapping built by calls of try_insert on an empty
\* RegisterMapping, forward[a] = b exactly when reverse[b] = a; a call that
\* returns false leaves forward and reverse as they were, and so does a call
\* that returns true for a pair already present (a call that returns true
\* for a new pair writes these two entries only).
C28_ForwardReverseAgree ==
    /\ [](\A a \in Reg23, b \in Reg23 :
              regmap.forward[a] = b <=> regmap.reverse[b] = a)
    /\ [][/\ ~last_insert'.ok => regmap' = regmap
          /\ (last_insert'.ok /\ <<last_insert'.reg1, last_insert'.reg2>> \in inserted)
                => regmap' = regmap
          /\ (last_insert'.ok /\ <<last_insert'.reg1, last_insert'.reg2>> \notin inserted)
                => /\ regmap'.forward = [regmap.forward EXCEPT
                                            ![last_insert'.reg1] = last_insert'.reg2]
                   /\ regmap'.reverse = [regmap.reverse EXCEPT
                                            ![last_insert'.reg2] = last_insert'.reg1]
         ]_vars

\* try_insert(a, b) has returned true a second time, the mapping holding
\* a-b and b-a
C28_Witness ==
    /\ inserted = {<<"a", "b">>, <<"b", "a">>}
    /\ last_insert = [reg1 |-> "a", reg2 |-> "b", ok |-> TRUE]
    /\ regmap.forward = [r \in Reg23 |->
                            IF r = "a" THEN "b" ELSE IF r = "b" THEN "a" ELSE None]
    /\ regmap.reverse = regmap.forward


(***************************************************************************)
(* Claims about part_1                                                     *)
(***************************************************************************)
\* C29: on EXAMPLE1, a machine in conditional-receive mode sends exactly one
\* value, 4: nothing is sent before the Snd at index 4 is executed, 4 is
\* sent there, and nothing further is sent however the run continues (by
\* step(), by run(), after any input); no step panics; and part_1 returns 4,
\* leaving the machine waiting at the Rcv at index 6.
C29_Example1Sends4 ==
    (instructions = EXAMPLE1 /\ mach[0].rcv_nonzero) =>
        /\ pc # "panic"
        /\ mach[0].output_count = (IF mach[0].ip > 4 THEN 1 ELSE 0)
        /\ pc # "part_1_done"
             => mach[0].output_queue = (IF mach[0].ip > 4 THEN <<4>> ELSE <<>>)
        /\ pc = "part_1_done"
             => /\ result = 4
                /\ mach[0].state = WaitingForInput
                /\ mach[0].ip = 6
                /\ mach[0].output_queue = <<>>

\* part_1 has returned 4 on EXAMPLE1
C29_Witness ==
    /\ pc = "part_1_done"
    /\ instructions = EXAMPLE1
    /\ result = 4
    /\ mach[0].output_count = 1
    /\ mach[0].registers["a"] = 1

\* a client has fed 2 and run the machine on: still one value sent
C29_WitnessContinued ==
    /\ pc = "api18"
    /\ instructions = EXAMPLE1
    /\ mach[0].rcv_nonzero
    /\ mach[0].state = WaitingForInput
    /\ mach[0].input_queue = <<>>
    /\ mach[0].registers["a"] = 2
    /\ call = "run"
    /\ mach[0].output_count = 1
    /\ mach[0].output_queue = <<4>>


\* C30: mul_count of a day 23 machine is 0 after new(); a step that executes
\* a Mul increases it by exactly one and a step that executes anything else
\* leaves it as it was, so it always equals the number of Mul instructions
\* executed; and when run() has returned in part_1, the value part_1 returns
\* is that number.
C30_MulCountCountsMul ==
    /\ [](/\ call = "new" => M23.mul_count = 0
          /\ M23.mul_count = muls
          /\ pc = "part_1_23_done" => (result = muls /\ M23.state # Pending))
    /\ [][M23' # M23
            => M23'.mul_count =
                   IF Executes23("BinOp") /\ Instr23.op = "Mul"
                   THEN M23.mul_count + 1 ELSE M23.mul_count
         ]_vars

\* part_1 has returned 2 on mul a a; set a 2; mul a a
C30_Witness ==
    /\ pc = "part_1_23_done"
    /\ instructions23 = <<BinOp("Mul", "a", R("a")), BinOp("Set", "a", V(2)),
                          BinOp("Mul", "a", R("a"))>>
    /\ result = 2
    /\ muls = 2
    /\ M23.mul_count = 2
    /\ M23.registers["a"] = 4


(***************************************************************************)
(* Claims about the window and its replacement                             *)
(***************************************************************************)
\* the instructions before the window in the programs that enter it
EntryLen == Len(Entered(3, 2, 1)) - Len(target) - 1

\* C31: entered with d = 2 and any checked b >= 3, the rewritten window is
\* left at its end (the index after its 9 instructions) after at most
\* 7 * (b - 2) calls of step(), and after strictly fewer calls than the 14
\* instructions of the window as given, whose run from the same entry state
\* is left at its end as well; no step of either run panics.
C31_RewrittenWindowIsFaster ==
    \A e \in Entries : \A ren \in Renamings :
        (e[2] = 2 /\ instructions23 = Renamed(Entered(e[1], e[2], e[3]), ren)) =>
            LET exit == EntryLen + Len(replacement)
                exit_given == EntryLen + Len(target) IN
            /\ pc # "panic"
            /\ GoesOn
            /\ (pc = "run_optimized" /\ machine.ip < exit)
                  => steps["optimized"] - EntryLen < 7 * (e[1] - 2)
            /\ (pc = "run_optimized" /\ machine.ip = exit)
                  => steps["optimized"] - EntryLen <= 7 * (e[1] - 2)
            /\ pc = "run_optimized" => machine.ip <= exit + 1
            /\ (pc = "run_given" /\ mach23.ip = exit_given)
                  => steps["given"] - EntryLen > steps["optimized"] - EntryLen - 2
            /\ pc = "run_given" => mach23.ip <= exit_given + 1
            /\ Compared
                  => /\ machine.state = Stopped /\ mach23.state = Stopped
                     /\ machine.ip = exit + 1 /\ mach23.ip = exit_given + 1
                     /\ steps["optimized"] < steps["given"]

\* b = 5 has no divisor: the rewritten window took 7 * 3 calls of step(),
\* the window as given 87
C31_Witness ==
    /\ Compared
    /\ instructions23 = Entered(5, 2, 1)
    /\ steps["optimized"] = EntryLen + 21 + 2
    /\ steps["given"] = EntryLen + 87 + 2


\* some k with d0 <= k < b0 divides b0
HasDivisorFrom(b0, d0) == \E k \in d0..(b0 - 1) : b0 % k = 0

\* the registers of the template
TemplateRegs == {"b", "d", "e", "f", "g"}

\* C32: entered with b >= 3 and 2 <= d < b, the window as given and the
\* rewritten window are both left at their end, no step panics, and there
\* the register paired with f is, in both runs, 0 if some k with d <= k < b
\* divides b and its entry value otherwise; the register paired with b has
\* its entry value, the one paired with g is 0, and every register not
\* paired with a register of the template has its entry value.  (The
\* registers paired with d and e are not compared.)
C32_WindowAndRewrittenAgree ==
    \A e \in Entries : \A ren \in Renamings :
        instructions23 = Renamed(Entered(e[1], e[2], e[3]), ren) =>
            /\ pc # "panic"
            /\ GoesOn
            /\ Compared =>
                 /\ machine.ip = EntryLen + Len(replacement) + 1
                 /\ mach23.ip = EntryLen + Len(target) + 1
                 /\ \A m \in {machine, mach23} :
                       /\ m.state = Stopped
                       /\ m.registers[ren["f"]] =
                              (IF HasDivisorFrom(e[1], e[2]) THEN 0 ELSE e[3])
                       /\ m.registers[ren["b"]] = e[1]
                       /\ m.registers[ren["g"]] = 0
                       /\ \A r \in Reg23 \ {ren[t] : t \in TemplateRegs} :
                              m.registers[r] = (IF r = "a" THEN m.registers["a"] ELSE 0)
                 /\ machine.registers["a"] = mach23.registers["a"]
                 /\ machine.registers["a"] \in CheckedA

\* entered with b = 6, d = 4 and f = 5: no k in 4..5 divides 6, f is still 5
\* in both runs; d is 6 in both, e is 6 in the run of the window as given
\* and 0 in the rewritten run
C32_Witness ==
    /\ Compared
    /\ instructions23 = Entered(6, 4, 5)
    /\ machine.registers["f"] = 5
    /\ mach23.registers["f"] = 5
    /\ mach23.registers["e"] = 6
    /\ machine.registers["e"] = 0
    /\ machine.registers["d"] = 6

\* entered with b = 6, d = 2 and f = 1: f is 0 in both runs, d is 2 in the
\* rewritten run and 6 in the run of the window as given
C32_WitnessDivisor ==
    /\ Compared
    /\ instructions23 = Entered(6, 2, 1)
    /\ machine.registers["f"] = 0
    /\ mach23.registers["f"] = 0
    /\ machine.registers["d"] = 2
    /\ mach23.registers["d"] = 6


\* the literal-offset jump at index j of the input goes to index t
JumpsTo(j, t) == LiteralJump(Given(j)) /\ j + Given(j).delta.val = t

\* C33: after a rewrite of the window at offset i, every literal-offset jump
\* outside the window that went to index i in the input, the first
\* instruction of the window, goes to index i in the output, the first
\* instruction of the replacement: a jump before the window, and a jump
\* after the window (which stands 5 positions earlier in the output).
C33_JumpToWindowStartKept ==
    Returned =>
        LET i == Lowest(Unifying(instructions23)) IN
        /\ \A j \in 0..(i - 1) :
               JumpsTo(j, i) => /\ LiteralJump(Rewritten(j))
                                /\ j + Rewritten(j).delta.val = i
        /\ \A j \in (i + Len(target))..(Len(instructions23) - 1) :
               JumpsTo(j, i) => /\ LiteralJump(Rewritten(j + Moved))
                                /\ (j + Moved) + Rewritten(j + Moved).delta.val = i

\* the half of C33 about the jumps before the window
C33_PrefixJumpToWindowStartKept ==
    Returned =>
        LET i == Lowest(Unifying(instructions23)) IN
        \A j \in 0..(i - 1) :
            JumpsTo(j, i) => Rewritten(j) = Given(j)

\* a jump before the window and a jump after it both went to the first
\* instruction of the window: the first still does, the second goes to -4
C33_PrefixWitness ==
    /\ pc = "tested"
    /\ instructions23 = <<Jnz(V(1), V(1))>> \o target \o <<Jnz(V(1), V(-14))>>
    /\ Rewritten(0) = Jnz(V(1), V(1))
    /\ Rewritten(10) = Jnz(V(1), V(-14))


(***************************************************************************)
(* Claims about the order in which part_2 resumes the machines             *)
(***************************************************************************)
\* the second run is under way or has ended
OtherRuns ==
    pc \in other_pcs(0) \cup other_pcs(1)
              \cup {"other_relay", "other_decide", "other_done", "other_panic"}

\* C34: for every program on which part_2 returns, the loop that resumes the
\* machines in any other order (machine 1 before machine 0, or both in one
\* iteration, in either order, whenever both can be resumed) does not panic,
\* always has a next step until it returns, and returns with both machines
\* having the send counts, the registers and the run-states that part_2's
\* machines have at its return.
C34_OrderDoesNotMatter ==
    OtherRuns =>
        /\ pc # "other_panic"
        /\ \A i \in {0, 1} :
              (pc \in other_pcs(i) /\ other[i].state = Pending)
                 => /\ ~step_panics(other[i], instructions)
                    /\ in_bounds(step(other[i], instructions))
        /\ pc = "other_done"
              => \A i \in {0, 1} :
                    /\ other[i].output_count = mach[i].output_count
                    /\ other[i].registers = mach[i].registers
                    /\ other[i].state = mach[i].state

\* on EXAMPLE2 both machines could be resumed after the first relay and an
\* order other than part_2's was taken: both still end waiting, 3 sent each
C34_Witness ==
    /\ pc = "other_done"
    /\ instructions = EXAMPLE2
    /\ call = "reordered"
    /\ result = 3
    /\ other[1].output_count = 3
    /\ other[0].registers = mach[0].registers
    /\ other[1].state = WaitingForInput


(***************************************************************************)
(* Claims about the messages of part_2                                     *)
(***************************************************************************)
\* C35: in every state of part_2's run and for each direction, the send
\* counter of the sender equals the number of values in its output queue
\* plus the number in the receiver's input queue plus the number of values
\* the receiver's Rcv instructions have stored: no value is dropped,
\* duplicated or invented.
C35_MessagesConserved ==
    \A i \in {0, 1} :
        /\ mach[i].output_count =
               Len(mach[i].output_queue) + Len(mach[1 - i].input_queue)
                   + Len(rcvd[1 - i])
        /\ mach[i].output_count = Len(sent[i])

\* machine 0 has sent three values and all have been relayed: machine 1 has
\* received one of them and two wait in its input queue; of the two values
\* machine 1 has sent, machine 0 has received both
C35_Witness ==
    /\ mach[0].output_count = 3
    /\ mach[0].output_queue = <<>>
    /\ Len(rcvd[1]) = 1
    /\ Len(mach[1].input_queue) = 2
    /\ mach[1].output_count = 2
    /\ Len(rcvd[0]) = 2


(***************************************************************************)
(* Claims about the states of a machine                                    *)
(***************************************************************************)
\* a call of run() has returned and nothing has been called since
RunReturned18 ==
    \/ pc = "api18" /\ call = "run"
    \/ pc = "part_1_pop"

RunReturned23 ==
    \/ pc = "api23" /\ call = "run"
    \/ pc = "part_1_23_done"

\* C36: whenever run() has returned, a day 18 machine is Stopped, or
\* WaitingForInput with an empty input queue: it is not Pending, and not
\* WaitingForInput with input; a day 23 machine is Stopped.
C36_RunReturnsStoppedOrStarved ==
    /\ RunReturned18 =>
          \/ M.state = Stopped
          \/ M.state = WaitingForInput /\ M.input_queue = <<>>
    /\ RunReturned23 => M23.state = Stopped

\* run() has returned on a machine that had been fed two values and has
\* received both: it waits again, its input queue empty
C36_Witness ==
    /\ pc = "api18"
    /\ call = "run"
    /\ instructions = <<Snd(V(1)), Snd(V(2)), Rcv("a"), Snd(R("a")), Rcv("b"), Rcv("c")>>
    /\ M.state = WaitingForInput
    /\ M.input_queue = <<>>
    /\ M.registers["a"] = 2
    /\ M.registers["b"] = 1
    /\ M.ip = 5

\* run() has returned on a Stopped machine that has input left
C36_WitnessStopped ==
    /\ pc = "api18"
    /\ call = "run"
    /\ M.state = Stopped
    /\ M.input_queue # <<>>


\* C37: when part_2 returns no message is in flight: both output queues are
\* empty, and the input queue of every machine that is not Stopped is empty;
\* only a Stopped machine may have values left in its input queue.
C37_NothingInFlightAtReturn ==
    pc = "done" =>
        \A i \in {0, 1} :
            /\ mach[i].output_queue = <<>>
            /\ mach[i].state # Stopped
                  => (mach[i].state = WaitingForInput /\ mach[i].input_queue = <<>>)

\* part_2 has returned with one machine Stopped, a value left in its input
\* queue, and the other waiting with an empty input queue
C37_Witness ==
    /\ pc = "done"
    /\ \E i \in {0, 1} :
          /\ mach[i].state = Stopped
          /\ mach[i].input_queue # <<>>
          /\ mach[1 - i].state = WaitingForInput
          /\ mach[1 - i].input_queue = <<>>
          /\ mach[1 - i].output_count > 0


\* the instruction pointers of both machines are within 0..length
IpInRange ==
    /\ M.ip \in 0..Len(instructions)
    /\ M23.ip \in 0..Len(instructions23)

\* step() goes on to fetch: the machine is Pending, or is woken by its input
Fetches18 ==
    /\ M.state = Pending \/ (M.state = WaitingForInput /\ M.input_queue # <<>>)
    /\ M.ip < Len(instructions)

Fetches23 == M23.state = Pending /\ M23.ip < Len(instructions23)

\* the jump at ip is taken and its target is outside [0, length)
JumpsOut18 ==
    /\ Executes18("Jgz")
    /\ Operand(M.registers, Instr18.check) > 0
    /\ M.ip + Operand(M.registers, Instr18.delta) \notin 0..(Len(instructions) - 1)

JumpsOut23 ==
    /\ Executes23("Jnz")
    /\ Operand(M23.registers, Instr23.check) # 0
    /\ M23.ip + Operand(M23.registers, Instr23.delta)
           \notin 0..(Len(instructions23) - 1)

\* C38: in every state of a machine of either day 0 <= ip <= length; a step
\* that finds the machine not Pending, or at ip = length, fetches nothing and
\* changes at most the state; a taken jump at p whose target is out of range
\* leaves the machine Stopped with ip = p + 1.
C38_IpStaysInProgram ==
    /\ []IpInRange
    /\ [][/\ (StepCall18 /\ ~Fetches18) => M' = [M EXCEPT !.state = M'.state]
          /\ (StepCall23 /\ ~Fetches23) => M23' = [M23 EXCEPT !.state = M23'.state]
          /\ (StepCall18 /\ JumpsOut18)
                => M' = [M EXCEPT !.state = Stopped, !.ip = M.ip + 1]
          /\ (StepCall23 /\ JumpsOut23)
                => M23' = [M23 EXCEPT !.state = Stopped, !.ip = M23.ip + 1]
         ]_vars

\* `jgz p 3` at index 1 of a program of length 4, taken to the target 4: the
\* machine is Stopped at ip 2
C38_Witness ==
    /\ instructions = <<Snd(V(1)), Jgz(R("p"), V(3)), Rcv("a"), Rcv("a")>>
    /\ M.registers["p"] = 1
    /\ M.state = Stopped
    /\ M.ip = 2
    /\ M.output_count = 1

\* `jnz 1 -2` at index 1 of a day 23 program, taken to the target -1
C38_Witness23 ==
    /\ Len(instructions23) = 2
    /\ instructions23[2] = Jnz(V(1), V(-2))
    /\ instructions23[1].tag = "BinOp"
    /\ M23.state = Stopped
    /\ M23.ip = 2


\* a machine in WaitingForInput stands at a Rcv that goes on to read
WaitingAtReceive ==
    M.state = WaitingForInput
        => /\ M.ip < Len(instructions)
           /\ Instr18.tag = "Rcv"
           /\ MustRead

WaitingWithInput == M.state = WaitingForInput /\ M.input_queue # <<>>

\* the machine is Pending again, and the Rcv at ip has taken the front value
ReceivedFront ==
    M' = [M EXCEPT !.state = Pending,
                   !.registers[Instr18.reg] = Head(M.input_queue),
                   !.input_queue = Tail(M.input_queue),
                   !.ip = M.ip + 1]

\* C39: a machine in WaitingForInput stands at a Rcv; once its input queue is
\* not empty the first step() makes it Pending and executes that Rcv: the front
\* of the queue, and no other value, is removed and stored in the Rcv's
\* register, and ip advances by one. run() wakes the machine the same way, and
\* the first iteration of its loop executes the Rcv.
C39_WokenReceiveTakesFront ==
    /\ []WaitingAtReceive
    /\ [][/\ (pc = "api18" /\ call' = "step" /\ WaitingWithInput)
                => (pc' = "api18" /\ ReceivedFront)
          /\ (pc = "api18" /\ call' = "run" /\ WaitingWithInput)
                => /\ pc' = "api18_run"
                   /\ M' = [M EXCEPT !.state = Pending]
                   /\ Instr18.tag = "Rcv" /\ MustRead
          /\ (pc = "api18_run" /\ Executes18("Rcv") /\ MustRead
                 /\ M.input_queue # <<>>)
                => PoppedFront
         ]_vars

\* fed 2 then 1 while waiting at the first Rcv, the machine has taken one step:
\* a holds 2, the value 1 is still in the queue, and the machine is Pending
C39_Witness ==
    /\ pc = "api18"
    /\ call = "step"
    /\ instructions = <<Snd(V(1)), Rcv("a"), Snd(R("p")), Rcv("b")>>
    /\ M.state = Pending
    /\ M.ip = 2
    /\ M.registers["a"] = 2
    /\ M.input_queue = <<1>>
    /\ M.output_count = 1

\* the same after run(): both values taken in order, waiting at the end
C39_WitnessRun ==
    /\ pc = "api18"
    /\ call = "run"
    /\ instructions = <<Snd(V(1)), Rcv("a"), Snd(R("p")), Rcv("b")>>
    /\ M.state = Stopped
    /\ M.registers["a"] = 2
    /\ M.registers["b"] = 1
    /\ M.input_queue = <<>>


\* C40: in conditional-receive mode a Rcv whose register holds 0 does not block
\* and does not consume input: the step changes ip to ip + 1 and nothing else,
\* with an empty input queue or not. In always-blocking mode the Rcv blocks
\* exactly when the input queue is empty and otherwise takes the front value,
\* with 0 in its register or not.
C40_ZeroReceiveSkipsInConditionalMode ==
    [][/\ (StepCall18 /\ Executes18("Rcv") /\ M.rcv_nonzero
              /\ M.registers[Instr18.reg] = 0)
            => M' = [M EXCEPT !.ip = M.ip + 1]
       /\ (StepCall18 /\ Executes18("Rcv") /\ ~M.rcv_nonzero)
            => IF M.input_queue = <<>>
               THEN M' = [M EXCEPT !.state = WaitingForInput]
               ELSE PoppedFront
      ]_vars

\* part_1 on EXAMPLE1 has passed `rcv a` with a = 0: nothing is recovered yet
C40_Witness ==
    /\ pc = "part_1"
    /\ instructions = EXAMPLE1
    /\ M.rcv_nonzero
    /\ M.state = Pending
    /\ M.ip = 7
    /\ M.registers["a"] = 0
    /\ M.output_queue = <<4>>
    /\ M.input_queue = <<>>

\* a conditional Rcv with a = 0 stepped over while the input queue holds a value
C40_WitnessWithInput ==
    /\ pc = "api18"
    /\ call = "step"
    /\ M.rcv_nonzero
    /\ instructions[1] = Rcv("a")
    /\ M.ip = 1
    /\ M.registers["a"] = 0
    /\ M.input_queue = <<1>>

\* in always-blocking mode a Rcv with a = 0 has blocked on an empty queue
C40_WitnessBlocking ==
    /\ pc = "api18"
    /\ call = "step"
    /\ ~M.rcv_nonzero
    /\ instructions[1] = Rcv("a")
    /\ M.ip = 0
    /\ M.registers["a"] = 0
    /\ M.state = WaitingForInput

====
